---------------------------- MODULE Spec2Model ----------------------------
(***************************************************************************)
(* SkillScout technical-screening agent: the Streamlit turn handler        *)
(* (src/steamlit_app.py) and the LLM gateway (src/llm_client.py).          *)
(*                                                                         *)
(* A Python str is a sequence of one-character strings, so that substring  *)
(* tests, splitting and stripping are computed as the code computes them.  *)
(* A question returned by the LLM is opaque text; it is represented by the *)
(* request that produced it (category, question number).                   *)
(***************************************************************************)
EXTENDS Integers, Sequences, FiniteSets, TLC

(***************************************************************************)
(* Bounds of the model (not program constants).                            *)
(***************************************************************************)
\* An answer is accepted while its category holds fewer than this many answers
\* more than questions; it bounds the answers that pile up while question
\* generation keeps failing.
MaxUnanswered == 1

\* The sessions that share the profile store.
NumSessions == 2

\* The largest number of questions a category holds in the scheduling states
\* the balanced selection is applied to.
MaxCount == 2

\* The largest number of technologies in a reply to the tech-stack prompt
\* (in the replies the categorizer is applied to).
MaxTokens == 3

(***************************************************************************)
(* Program constants.                                                      *)
(***************************************************************************)
MAX_TOTAL_QUESTIONS == 15

MAX_Q_HISTORY == 5

MAX_A_HISTORY == 3

\* _safe_chat_completion(max_retries=2, base_sleep=4)
max_retries == 2

base_sleep == 4

\* time.sleep(3 * attempt) on a timeout or API error
api_sleep == 3

EXIT_KEYWORDS ==
    { <<"e", "x", "i", "t">>, <<"q", "u", "i", "t">>, <<"b", "y", "e">>,
      <<"g", "o", "o", "d", "b", "y", "e">>, <<"s", "t", "o", "p">>,
      <<"e", "n", "d">> }

REQUIRED_FIELDS ==
    << "full_name", "email", "phone", "years_experience",
       "desired_positions", "current_location", "tech_stack" >>

CATEGORY_PRIORITY ==
    << "Backend", "Data/ML", "Frontend", "DevOps/Cloud", "QA/Testing",
       "Mobile", "Other" >>

Rules_Backend ==
    { <<"p", "y", "t", "h", "o", "n">>,
      <<"j", "a", "v", "a">>,
      <<"c", "#">>,
      <<"c", "s", "h", "a", "r", "p">>,
      <<"n", "o", "d", "e">>,
      <<"n", "o", "d", "e", ".", "j", "s">>,
      <<"n", "o", "d", "e", "j", "s">>,
      <<"s", "p", "r", "i", "n", "g">>,
      <<"d", "j", "a", "n", "g", "o">>,
      <<"f", "a", "s", "t", "a", "p", "i">>,
      <<".", "n", "e", "t">>,
      <<"d", "o", "t", "n", "e", "t">>,
      <<"p", "h", "p">>,
      <<"l", "a", "r", "a", "v", "e", "l">>,
      <<"e", "x", "p", "r", "e", "s", "s">>,
      <<"n", "e", "s", "t">>,
      <<"n", "e", "s", "t", ".", "j", "s">>,
      <<"n", "e", "s", "t", "j", "s">>,
      <<"g", "o", "l", "a", "n", "g">>,
      <<"g", "o">>,
      <<"r", "u", "b", "y">>,
      <<"r", "a", "i", "l", "s">> }

Rules_Frontend ==
    { <<"j", "a", "v", "a", "s", "c", "r", "i", "p", "t">>,
      <<"t", "y", "p", "e", "s", "c", "r", "i", "p", "t">>,
      <<"r", "e", "a", "c", "t">>,
      <<"r", "e", "a", "c", "t", ".", "j", "s">>,
      <<"r", "e", "a", "c", "t", "j", "s">>,
      <<"v", "u", "e">>,
      <<"v", "u", "e", ".", "j", "s">>,
      <<"v", "u", "e", "j", "s">>,
      <<"a", "n", "g", "u", "l", "a", "r">>,
      <<"s", "v", "e", "l", "t", "e">>,
      <<"n", "e", "x", "t", ".", "j", "s">>,
      <<"n", "e", "x", "t", "j", "s">>,
      <<"n", "u", "x", "t">>,
      <<"h", "t", "m", "l">>,
      <<"c", "s", "s">>,
      <<"t", "a", "i", "l", "w", "i", "n", "d">>,
      <<"b", "o", "o", "t", "s", "t", "r", "a", "p">> }

Rules_DataML ==
    { <<"p", "a", "n", "d", "a", "s">>,
      <<"n", "u", "m", "p", "y">>,
      <<"s", "c", "i", "k", "i", "t", "-", "l", "e", "a", "r", "n">>,
      <<"s", "k", "l", "e", "a", "r", "n">>,
      <<"t", "e", "n", "s", "o", "r", "f", "l", "o", "w">>,
      <<"p", "y", "t", "o", "r", "c", "h">>,
      <<"k", "e", "r", "a", "s">>,
      <<"m", "l", "f", "l", "o", "w">>,
      <<"a", "i", "r", "f", "l", "o", "w">>,
      <<"s", "p", "a", "r", "k">>,
      <<"p", "y", "s", "p", "a", "r", "k">>,
      <<"s", "q", "l">>,
      <<"p", "o", "s", "t", "g", "r", "e", "s">>,
      <<"p", "o", "s", "t", "g", "r", "e", "s", "q", "l">>,
      <<"m", "y", "s", "q", "l">>,
      <<"b", "i", "g", "q", "u", "e", "r", "y">>,
      <<"s", "n", "o", "w", "f", "l", "a", "k", "e">>,
      <<"d", "a", "t", "a", "b", "r", "i", "c", "k", "s">>,
      <<"l", "o", "o", "k", "m", "l">>,
      <<"d", "b", "t">> }

Rules_DevOpsCloud ==
    { <<"d", "o", "c", "k", "e", "r">>,
      <<"k", "u", "b", "e", "r", "n", "e", "t", "e", "s">>,
      <<"k", "8", "s">>,
      <<"a", "w", "s">>,
      <<"a", "z", "u", "r", "e">>,
      <<"g", "c", "p">>,
      <<"g", "o", "o", "g", "l", "e", " ", "c", "l", "o", "u", "d">>,
      <<"t", "e", "r", "r", "a", "f", "o", "r", "m">>,
      <<"a", "n", "s", "i", "b", "l", "e">>,
      <<"j", "e", "n", "k", "i", "n", "s">>,
      <<"g", "i", "t", "h", "u", "b", " ", "a", "c", "t", "i", "o", "n", "s">>,
      <<"g", "i", "t", "l", "a", "b", " ", "c", "i">>,
      <<"c", "i", "/", "c", "d">>,
      <<"l", "i", "n", "u", "x">> }

Rules_QATesting ==
    { <<"p", "y", "t", "e", "s", "t">>,
      <<"j", "u", "n", "i", "t">>,
      <<"s", "e", "l", "e", "n", "i", "u", "m">>,
      <<"c", "y", "p", "r", "e", "s", "s">>,
      <<"p", "l", "a", "y", "w", "r", "i", "g", "h", "t">>,
      <<"p", "o", "s", "t", "m", "a", "n">>,
      <<"r", "e", "s", "t", "a", "s", "s", "u", "r", "e", "d">> }

Rules_Mobile ==
    { <<"a", "n", "d", "r", "o", "i", "d">>,
      <<"k", "o", "t", "l", "i", "n">>,
      <<"s", "w", "i", "f", "t">>,
      <<"i", "o", "s">>,
      <<"r", "e", "a", "c", "t", " ", "n", "a", "t", "i", "v", "e">>,
      <<"f", "l", "u", "t", "t", "e", "r">> }

(***************************************************************************)
(* Python str operations on character sequences.                           *)
(***************************************************************************)
UpperChars ==
    << "A", "B", "C", "D", "E", "F", "G", "H", "I", "J", "K", "L", "M",
       "N", "O", "P", "Q", "R", "S", "T", "U", "V", "W", "X", "Y", "Z" >>

LowerChars ==
    << "a", "b", "c", "d", "e", "f", "g", "h", "i", "j", "k", "l", "m",
       "n", "o", "p", "q", "r", "s", "t", "u", "v", "w", "x", "y", "z" >>

DigitChars == << "0", "1", "2", "3", "4", "5", "6", "7", "8", "9" >>

\* str.lower() of one character
LowerChar(c) ==
    IF \E i \in 1..26 : UpperChars[i] = c
    THEN LowerChars[CHOOSE i \in 1..26 : UpperChars[i] = c]
    ELSE c

\* str.lower()
Lower(s) == [i \in 1..Len(s) |-> LowerChar(s[i])]

\* \s of re, and the characters str.strip() and str.split() remove
IsSpace(c) == c \in {" ", "\t", "\n"}

\* \d of re
IsDigit(c) == \E i \in 1..10 : DigitChars[i] = c

DigitValue(c) == (CHOOSE i \in 1..10 : DigitChars[i] = c) - 1

SetMin(S) == CHOOSE i \in S : \A j \in S : i <= j

SetMax(S) == CHOOSE i \in S : \A j \in S : j <= i

\* s from its first to its last character at a position of keep
Between(s, keep) ==
    IF keep = {} THEN << >> ELSE SubSeq(s, SetMin(keep), SetMax(keep))

\* str.strip()
Strip(s) == Between(s, {i \in 1..Len(s) : ~IsSpace(s[i])})

\* `w in s` for strings
Contains(s, w) ==
    \E i \in 0..(Len(s) - Len(w)) : SubSeq(s, i + 1, i + Len(w)) = w

\* s.startswith(w)
StartsWith(s, w) == Len(w) <= Len(s) /\ SubSeq(s, 1, Len(w)) = w

\* s without the characters of drop (str.replace(c, "") for each c)
RECURSIVE FilterChars(_, _)
FilterChars(s, drop) ==
    IF s = << >> THEN << >>
    ELSE IF Head(s) \in drop THEN FilterChars(Tail(s), drop)
         ELSE <<Head(s)>> \o FilterChars(Tail(s), drop)

\* re.sub(r"\D", "", s)
RECURSIVE OnlyDigits(_)
OnlyDigits(s) ==
    IF s = << >> THEN << >>
    ELSE IF IsDigit(Head(s)) THEN <<Head(s)>> \o OnlyDigits(Tail(s))
         ELSE OnlyDigits(Tail(s))

\* s.replace(a, b) for single characters
ReplaceChar(s, a, b) == [i \in 1..Len(s) |-> IF s[i] = a THEN b ELSE s[i]]

\* The first position of s that holds a character of chars.
FirstOf(s, chars) ==
    SetMin({i \in 1..Len(s) : s[i] \in chars})

\* s.split(sep) for a one-character separator: every piece, empty ones too
RECURSIVE SplitOn(_, _)
SplitAt(s, sep, p) ==
    << SubSeq(s, 1, p - 1) >> \o SplitOn(SubSeq(s, p + 1, Len(s)), sep)

SplitOn(s, sep) ==
    IF \A i \in 1..Len(s) : s[i] # sep THEN << s >>
    ELSE SplitAt(s, sep, FirstOf(s, {sep}))

\* s.split(): the maximal runs of non-whitespace characters
RECURSIVE SplitSpace(_)
SplitStripped(t) ==
    IF t = << >> THEN << >>
    ELSE IF \A i \in 1..Len(t) : ~IsSpace(t[i]) THEN << t >>
    ELSE << SubSeq(t, 1, FirstOf(t, {" ", "\t", "\n"}) - 1) >>
           \o SplitSpace(SubSeq(t, FirstOf(t, {" ", "\t", "\n"}) + 1, Len(t)))

SplitSpace(s) == SplitStripped(Strip(s))

\* int(digits) for a run of decimal digits
RECURSIVE DigitsToInt(_)
DigitsToInt(s) ==
    IF s = << >> THEN 0
    ELSE DigitsToInt(SubSeq(s, 1, Len(s) - 1)) * 10 + DigitValue(s[Len(s)])

RECURSIVE Pow10(_)
Pow10(k) == IF k = 0 THEN 1 ELSE 10 * Pow10(k - 1)

\* str(n) for an int in 0..99
IntToStr(n) ==
    IF n < 10 THEN << DigitChars[n + 1] >>
    ELSE << DigitChars[(n \div 10) + 1], DigitChars[(n % 10) + 1] >>

(***************************************************************************)
(* Validators and parsers of the field collector.                          *)
(***************************************************************************)
check_exit_keyword(user_input) ==
    \E word \in EXIT_KEYWORDS : Contains(Strip(Lower(user_input)), word)

strip_label_prefix(text) ==
    IF \E i \in 1..Len(text) : text[i] = ":"
    THEN Strip(SubSeq(text, FirstOf(text, {":"}) + 1, Len(text)))
    ELSE Strip(text)

\* re.match(r"^[^@\s]+@[^@\s]+\.[^@\s]+$", text): no whitespace, one "@"
\* with a character before it, and after it a "." that has a character on
\* either side.
email_pattern_matches(text) ==
    /\ \A i \in 1..Len(text) : ~IsSpace(text[i])
    /\ Cardinality({i \in 1..Len(text) : text[i] = "@"}) = 1
    /\ FirstOf(text, {"@"}) > 1
    /\ \E dot \in (FirstOf(text, {"@"}) + 2)..(Len(text) - 1) : text[dot] = "."

is_valid_email(raw) == email_pattern_matches(strip_label_prefix(raw))

\* "+" and the digits after it, or the digits alone
phone_digits(text) ==
    IF StartsWith(text, <<"+">>)
    THEN <<"+">> \o OnlyDigits(Tail(text))
    ELSE OnlyDigits(text)

normalize_phone(raw) ==
    phone_digits(FilterChars(strip_label_prefix(raw), {" ", "-"}))

\* digits.isdigit() and 8 <= len(digits) <= 15
phone_length_ok(digits) ==
    /\ digits # << >>
    /\ \A i \in 1..Len(digits) : IsDigit(digits[i])
    /\ 8 <= Len(digits) /\ Len(digits) <= 15

without_plus(norm) == IF StartsWith(norm, <<"+">>) THEN Tail(norm) ELSE norm

is_valid_phone(raw) == phone_length_ok(without_plus(normalize_phone(raw)))

\* The end of the maximal run of digits of s that starts at position i.
DigitRunEnd(s, i) ==
    CHOOSE j \in i..Len(s) :
        /\ \A k \in i..j : IsDigit(s[k])
        /\ (j = Len(s) \/ ~IsDigit(s[j + 1]))

\* round(): Python 3 rounds a half to the even neighbour
RoundHalfEven(whole, fracNum, fracDen) ==
    IF 2 * fracNum < fracDen THEN whole
    ELSE IF 2 * fracNum > fracDen THEN whole + 1
    ELSE IF whole % 2 = 0 THEN whole ELSE whole + 1

\* value = max(0.0, min(40.0, float(match))); int(round(value)), for the
\* match whole "." frac (frac empty when the match has no fraction)
years_value(whole, frac) ==
    IF whole >= 40 THEN 40
    ELSE RoundHalfEven(whole, DigitsToInt(frac), Pow10(Len(frac)))

\* re.search(r"(\d+(\.\d+)?)", raw): the leftmost run of digits, raw[b..e],
\* and the fraction after it when a "." and a digit follow
years_match(raw, b, e) ==
    IF e + 2 <= Len(raw) /\ raw[e + 1] = "." /\ IsDigit(raw[e + 2])
    THEN years_value(DigitsToInt(SubSeq(raw, b, e)),
                     SubSeq(raw, e + 2, DigitRunEnd(raw, e + 2)))
    ELSE years_value(DigitsToInt(SubSeq(raw, b, e)), << >>)

years_search(raw, b) == years_match(raw, b, DigitRunEnd(raw, b))

\* None is modelled as -1.
years_of(raw) ==
    IF \A i \in 1..Len(raw) : ~IsDigit(raw[i]) THEN -1
    ELSE years_search(raw, SetMin({i \in 1..Len(raw) : IsDigit(raw[i])}))

parse_years_experience(raw) == years_of(Lower(strip_label_prefix(raw)))

derive_seniority_label(years) ==
    IF years < 2 THEN "Junior"
    ELSE IF years < 6 THEN "Mid-level"
    ELSE "Senior"

\* [p.strip() for p in parts if p.strip()]
RECURSIVE StripNonEmpty(_)
StripNonEmpty(parts) ==
    IF parts = << >> THEN << >>
    ELSE IF Strip(Head(parts)) = << >> THEN StripNonEmpty(Tail(parts))
         ELSE << Strip(Head(parts)) >> \o StripNonEmpty(Tail(parts))

\* A variant of DedupLower that compares the strings as they are written.
RECURSIVE DedupExact(_, _)
DedupExact(parts, seen) ==
    IF parts = << >> THEN << >>
    ELSE IF Head(parts) \in seen THEN DedupExact(Tail(parts), seen)
         ELSE << Head(parts) >>
                  \o DedupExact(Tail(parts), seen \cup {Head(parts)})
\* The first occurrence of every string of parts, compared in lower case.
RECURSIVE DedupLower(_, _)
DedupLower(parts, seen) ==
    IF parts = << >> THEN << >>
    ELSE IF Lower(Head(parts)) \in seen THEN DedupLower(Tail(parts), seen)
         ELSE << Head(parts) >>
                  \o DedupLower(Tail(parts), seen \cup {Lower(Head(parts))})

\* the comma-separated parts, or, when there is none, the words
tech_parts(text, comma_parts) ==
    IF comma_parts = << >> THEN StripNonEmpty(SplitSpace(text)) ELSE comma_parts

tech_tokens(text) ==
    DedupLower(
        tech_parts(text, StripNonEmpty(SplitOn(ReplaceChar(text, ";", ","), ","))),
        {})

parse_tech_stack(raw_tech) == tech_tokens(strip_label_prefix(raw_tech))

\* SKILL_CATEGORY_RULES.get(low, "Other")
SkillCategory(low) ==
    IF low \in Rules_Backend THEN "Backend"
    ELSE IF low \in Rules_Frontend THEN "Frontend"
    ELSE IF low \in Rules_DataML THEN "Data/ML"
    ELSE IF low \in Rules_DevOpsCloud THEN "DevOps/Cloud"
    ELSE IF low \in Rules_QATesting THEN "QA/Testing"
    ELSE IF low \in Rules_Mobile THEN "Mobile"
    ELSE "Other"

\* A Python dict is a function on its keys; {} is the function on no key.
EmptyDict == [k \in {} |-> << >>]

\* the labels of tech_list (stripped, non-empty) that fall in category cat
RECURSIVE SkillsOf(_, _)
SkillsOf(tech_list, cat) ==
    IF tech_list = << >> THEN << >>
    ELSE IF Strip(Head(tech_list)) # << >>
            /\ SkillCategory(Lower(Strip(Head(tech_list)))) = cat
         THEN << Strip(Head(tech_list)) >> \o SkillsOf(Tail(tech_list), cat)
         ELSE SkillsOf(Tail(tech_list), cat)

categorize_skills(tech_list) ==
    LET present == { SkillCategory(Lower(Strip(tech_list[i]))) :
                       i \in {j \in 1..Len(tech_list) : Strip(tech_list[j]) # << >>} }
    IN  [cat \in present |-> DedupLower(SkillsOf(tech_list, cat), {})]

RECURSIVE SetToSeq(_)
SetToSeq(S) ==
    IF S = {} THEN << >>
    ELSE LET x == CHOOSE y \in S : TRUE IN << x >> \o SetToSeq(S \ {x})

\* ordered, then the keys it lacks
with_unlisted(ordered, present) ==
    ordered \o SetToSeq({c \in present : \A i \in 1..Len(ordered) : ordered[i] # c})

\* A variant of compute_category_order that keeps only the first category.
compute_category_order_first_only(categories) ==
    SubSeq(with_unlisted(SelectSeq(CATEGORY_PRIORITY, LAMBDA c : c \in DOMAIN categories),
                         DOMAIN categories), 1, 1)
compute_category_order(categories) ==
    with_unlisted(SelectSeq(CATEGORY_PRIORITY, LAMBDA c : c \in DOMAIN categories),
                  DOMAIN categories)

(***************************************************************************)
(* The generation gateway (src/llm_client.py).                             *)
(***************************************************************************)
\* What one client.chat.completions.create(...) attempt can do: return a
\* response, or raise.  OtherError is any exception that is none of the three
\* openai classes the retry loop names.
BackendOutcomes ==
    { "ok", "RateLimitError", "APITimeoutError", "APIError", "OtherError" }

GatewayOps ==
    { "role_summary", "skill_summary", "category_question", "fallback_response" }

\* No gateway call in progress.
GwIdle ==
    [ op |-> "none", pc |-> "idle", attempt |-> 0, calls |-> 0,
      slept |-> << >>, pending_sleep |-> 0, last_exception |-> "None",
      result |-> "none" ]

\* Entry of _safe_chat_completion, at the head of the retry loop.
GwStart(op) ==
    [ GwIdle EXCEPT !.op = op, !.pc = "try", !.attempt = 1 ]

\* One pass through the try block: the backend call and the except clause
\* that catches what it raised, up to (not including) time.sleep.
GwTry(g, outcome) ==
    IF outcome = "ok"
    THEN [ g EXCEPT !.pc = "done", !.calls = @ + 1, !.result = "text" ]
    ELSE IF outcome = "RateLimitError"
    THEN [ g EXCEPT !.pc = "sleep", !.calls = @ + 1,
                    !.last_exception = outcome,
                    !.pending_sleep = base_sleep * g.attempt ]
    ELSE IF outcome \in {"APITimeoutError", "APIError"}
    THEN [ g EXCEPT !.pc = "sleep", !.calls = @ + 1,
                    !.last_exception = outcome,
                    !.pending_sleep = api_sleep * g.attempt ]
    ELSE \* no except clause matches: the exception leaves the function
         [ g EXCEPT !.pc = "done", !.calls = @ + 1, !.result = outcome ]

\* A variant of GwSleep that gives up after the first failed attempt.
GwSleep_without_retry(g) ==
    [ g EXCEPT !.slept = Append(@, g.pending_sleep), !.pending_sleep = 0,
               !.pc = "done", !.result = "RuntimeError" ]
\* time.sleep(...) and the loop header: the next attempt, or, after the last
\* one, raise RuntimeError(...) from last_exception.
GwSleep(g) ==
    IF g.attempt + 1 <= max_retries
    THEN [ g EXCEPT !.slept = Append(@, g.pending_sleep), !.pending_sleep = 0,
                    !.pc = "try", !.attempt = @ + 1 ]
    ELSE [ g EXCEPT !.slept = Append(@, g.pending_sleep), !.pending_sleep = 0,
                    !.pc = "done", !.result = "RuntimeError" ]

\* The whole call, given what the backend does at each attempt.
RECURSIVE GwRun(_, _)
GwRun(g, outcomes) ==
    IF g.pc = "done" THEN g
    ELSE IF g.pc = "sleep" THEN GwRun(GwSleep(g), outcomes)
    ELSE GwRun(GwTry(g, Head(outcomes)), Tail(outcomes))

\* _safe_chat_completion: "text" (a string is returned), "RuntimeError"
\* (raised after the retries) or the backend's own exception.
safe_chat_completion(op, outcomes) == GwRun(GwStart(op), outcomes).result

\* The backend behaviours one gateway call can meet.
OutcomeSeqs == [1..max_retries -> BackendOutcomes]

\* Every way a call of the gateway can end, over those behaviours.
GatewayResults(op) == { safe_chat_completion(op, outcomes) : outcomes \in OutcomeSeqs }

(***************************************************************************)
(* The session (src/steamlit_app.py).                                      *)
(***************************************************************************)
VARIABLES
    session_state,  \* st.session_state: one record, a field per key
    store,          \* the file candidates.json
    run_error,      \* the exception that ended the latest run of main(), or "none"
    gw,             \* the gateway call followed step by step (GwSpec)
    savers          \* the calls of save_candidate_profile, one per session,
                    \* followed step by step (StoreSpec)

vars == << session_state, store, run_error, gw, savers >>

\* An entry of st.session_state.messages.  A generated text is opaque: a
\* message carries what kind of text it is; `text` is the user's input, the
\* candidate's first name in a completion message, or, for a generated
\* question, the request that produced it; `about` is the field or category
\* a prompt or question is about.
Msg(role, kind, text, about, num) ==
    [ role |-> role, kind |-> kind, text |-> text, about |-> about, num |-> num ]

AssistantMsg(kind) == Msg("assistant", kind, << >>, "", 0)

\* The transcript is kept as its tail, the messages the latest turn appended,
\* and `earlier`, whether it holds messages before them.
NoMessages == [ earlier |-> FALSE, tail |-> << >> ]

messages_empty(ss) == ~ss.messages.earlier /\ ss.messages.tail = << >>

add_message(ss, msg) ==
    [ ss EXCEPT !.messages.tail = Append(@, msg) ]

\* A new run of main() that received input: what it appends starts a new tail.
begin_turn(ss) ==
    [ ss EXCEPT !.messages = [ earlier |-> ~messages_empty(ss), tail |-> << >> ] ]

init_session_state ==
    [ total_questions_asked       |-> 0,
      asked_questions_by_category |-> EmptyDict,
      messages                    |-> NoMessages,
      candidate_data              |-> [k \in {REQUIRED_FIELDS[i] : i \in 1..Len(REQUIRED_FIELDS)} |-> << >>],
      role_summary                |-> "",
      skill_summary               |-> "",
      seniority_label             |-> "Unknown",
      skill_categories            |-> EmptyDict,
      category_order              |-> << >>,
      state                       |-> "collecting_info",
      current_field_index         |-> 0,
      consent_status              |-> "unknown",
      current_category_index      |-> 0,
      category_question_index     |-> 0,
      answers                     |-> EmptyDict,
      awaiting_followup           |-> FALSE,
      last_category_answered      |-> "None" ]

\* full.split()[0], or "" for an empty name
first_word(full) == IF full = << >> THEN << >> ELSE Head(SplitSpace(full))

candidate_first_name(ss) == first_word(Strip(ss.candidate_data["full_name"]))

completion_message(ss, max_reached) ==
    Msg("assistant",
        IF max_reached THEN "completion_max_reached" ELSE "completion",
        candidate_first_name(ss), "", 0)

get_current_field_key(ss) == REQUIRED_FIELDS[ss.current_field_index + 1]

advance_to_next_field(ss) ==
    IF ss.current_field_index + 1 >= Len(REQUIRED_FIELDS)
    THEN [ ss EXCEPT !.current_field_index = Len(REQUIRED_FIELDS) - 1 ]
    ELSE [ ss EXCEPT !.current_field_index = @ + 1 ]

ask_next_field_question(ss) ==
    IF ss.current_field_index >= Len(REQUIRED_FIELDS) THEN ss
    ELSE add_message(ss, Msg("assistant", "field_prompt", << >>,
                             REQUIRED_FIELDS[ss.current_field_index + 1], 0))

\* "(no technologies provided)"
NoTechnologies ==
    << "(", "n", "o", " ", "t", "e", "c", "h", "n", "o",
       "l", "o", "g", "i", "e", "s", " ", "p", "r", "o", "v", "i", "d", "e", "d", ")" >>

\* lines 357-360: the categories are derived again when there are none
categories_or_derived(ss, tech_list) ==
    IF DOMAIN ss.skill_categories = {}
    THEN categorize_skills(tech_list)
    ELSE ss.skill_categories

\* lines 362-367: a single "Other" category when there still are none
categories_or_other(categories, tech_list) ==
    IF DOMAIN categories = {}
    THEN [c \in {"Other"} |->
             IF tech_list = << >> THEN << NoTechnologies >> ELSE tech_list]
    ELSE categories

\* lines 369-377
reset_screening(ss, order) ==
    [ ss EXCEPT !.category_order = order,
                !.current_category_index = 0,
                !.category_question_index = 0,
                !.total_questions_asked = 0,
                !.asked_questions_by_category =
                    [c \in {order[i] : i \in 1..Len(order)} |-> << >>],
                !.answers = [c \in {order[i] : i \in 1..Len(order)} |-> << >>],
                !.awaiting_followup = FALSE,
                !.last_category_answered = "None" ]

prepare_with(ss, categories) ==
    reset_screening([ ss EXCEPT !.skill_categories = categories ],
                    compute_category_order(categories))

prepare_screening_after_consent(ss) ==
    prepare_with(ss,
        categories_or_other(
            categories_or_derived(ss, parse_tech_stack(ss.candidate_data["tech_stack"])),
            parse_tech_stack(ss.candidate_data["tech_stack"])))

get_current_category(ss) ==
    IF ss.category_order = << >> THEN "None"
    ELSE IF ss.current_category_index < 0
            \/ ss.current_category_index >= Len(ss.category_order) THEN "None"
    ELSE ss.category_order[ss.current_category_index + 1]

\* d.get(k, [])
DictGet(d, k) == IF k \in DOMAIN d THEN d[k] ELSE << >>

\* d.setdefault(k, []).append(v)
DictAppend(d, k, v) ==
    [x \in DOMAIN d \cup {k} |->
        IF x = k THEN Append(DictGet(d, k), v) ELSE d[x]]

\* seq[-n:]
LastN(seq, n) ==
    IF Len(seq) <= n THEN seq ELSE SubSeq(seq, Len(seq) - n + 1, Len(seq))

\* The text the question agent returns is opaque; it is represented by the
\* request that produced it.
QuestionText(category, question_number) ==
    [ category |-> category, question_number |-> question_number ]

\* What a step of the handler hands back: the session state it leaves, and the
\* exception it raised ("none" when it returned).
Returned(ss) == [ ss |-> ss, exc |-> "none" ]

Raised(ss, exc) == [ ss |-> ss, exc |-> exc ]

\* counts = {cat: len(asked_q.get(cat, [])) for cat in categories}, by position
category_counts(categories, asked_q) ==
    [i \in 1..Len(categories) |-> Len(DictGet(asked_q, categories[i]))]

\* min(counts.values())
min_count(counts) ==
    CHOOSE m \in {counts[i] : i \in 1..Len(counts)} :
        \A i \in 1..Len(counts) : m <= counts[i]

\* The for loop: the first index, scanning circularly from start_idx, whose
\* count is the minimum; selected_idx stays 0 when the loop finds none.
first_minimal(start_idx, num_categories, hits) ==
    IF hits = {} THEN 0 ELSE (start_idx + SetMin(hits)) % num_categories

scan_from(start_idx, counts) ==
    first_minimal(start_idx, Len(counts),
        {offset \in 0..(Len(counts) - 1) :
            counts[((start_idx + offset) % Len(counts)) + 1] = min_count(counts)})

\* A variant of the balanced selection that always scans from the head of
\* category_order.
balanced_selection_from_head(ss) ==
    scan_from(0, category_counts(ss.category_order, ss.asked_questions_by_category))
\* Balanced selection (the else branch of the follow-up test): selected_idx.
balanced_selection(ss) ==
    scan_from(ss.current_category_index,
              category_counts(ss.category_order, ss.asked_questions_by_category))

\* A variant of the follow-up test that never holds: every question comes
\* from the balanced selection.
followup_ignored(ss) == FALSE

\* The follow-up test: TRUE when the next question must stay in
\* last_category_answered.
followup_pending(ss) ==
    ss.awaiting_followup /\ ss.last_category_answered \notin {"None", ""}

\* A variant of generation_request whose windows hold the oldest questions
\* and answers of the category instead of the latest.
generation_request_oldest_first(ss, category) ==
    [ category |-> category,
      question_number |-> Len(DictGet(ss.asked_questions_by_category, category)) + 1,
      previously_asked_questions |->
          SubSeq(DictGet(ss.asked_questions_by_category, category), 1,
                 SetMin({ MAX_Q_HISTORY,
                          Len(DictGet(ss.asked_questions_by_category, category)) })),
      answers_in_category |->
          SubSeq(DictGet(ss.answers, category), 1,
                 SetMin({ MAX_A_HISTORY, Len(DictGet(ss.answers, category)) })),
      last_answer |->
          IF DictGet(ss.answers, category) = << >> THEN << >>
          ELSE DictGet(ss.answers, category)[Len(DictGet(ss.answers, category))] ]

\* Lines 435-462: what the call of generate_category_question is given about
\* the category (the candidate's profile fields are passed as they are).
generation_request(ss, category) ==
    [ category |-> category,
      question_number |-> Len(DictGet(ss.asked_questions_by_category, category)) + 1,
      previously_asked_questions |->
          LastN(DictGet(ss.asked_questions_by_category, category), MAX_Q_HISTORY),
      answers_in_category |->
          LastN(DictGet(ss.answers, category), MAX_A_HISTORY),
      last_answer |->
          IF DictGet(ss.answers, category) = << >> THEN << >>
          ELSE DictGet(ss.answers, category)[Len(DictGet(ss.answers, category))] ]

\* A variant of record_question that counts the question before the
\* generation call, so that a failed call leaves the counter incremented.
record_question_counting_first(ss, category, question_number_for_cat, result) ==
    IF result # "text"
    THEN Raised([ ss EXCEPT !.total_questions_asked = @ + 1 ], result)
    ELSE Returned(add_message(
             [ ss EXCEPT
                 !.category_question_index = question_number_for_cat - 1,
                 !.total_questions_asked = @ + 1,
                 !.asked_questions_by_category =
                     DictAppend(@, category,
                                QuestionText(category, question_number_for_cat)) ],
             Msg("assistant", "question", generation_request(ss, category),
                 category, question_number_for_cat)))

\* Lines 464-468, after generate_category_question returned; when it raised,
\* none of them runs.
record_question(ss, category, question_number_for_cat, result) ==
    IF result # "text" THEN Raised(ss, result)
    ELSE Returned(add_message(
             [ ss EXCEPT
                 !.category_question_index = question_number_for_cat - 1,
                 !.total_questions_asked = @ + 1,
                 !.asked_questions_by_category =
                     DictAppend(@, category,
                                QuestionText(category, question_number_for_cat)) ],
             Msg("assistant", "question", generation_request(ss, category),
                 category, question_number_for_cat)))

\* Lines 435-462: the question number and the generation call.
materialize_question(ss, category, result) ==
    record_question(ss, category,
        Len(DictGet(ss.asked_questions_by_category, category)) + 1, result)

\* Lines 432-433
select_category(ss, selected_idx, result) ==
    materialize_question([ ss EXCEPT !.current_category_index = selected_idx ],
                         ss.category_order[selected_idx + 1], result)

\* A variant of choose_category that leaves awaiting_followup set when it
\* serves the follow-up.
choose_category_keeping_flag(ss, result) ==
    IF followup_pending(ss)
    THEN materialize_question(ss, ss.last_category_answered, result)
    ELSE select_category(ss, balanced_selection(ss), result)
\* Lines 416-433: the follow-up has priority over the balanced selection.
choose_category(ss, result) ==
    IF followup_pending(ss)
    THEN materialize_question([ ss EXCEPT !.awaiting_followup = FALSE ],
                              ss.last_category_answered, result)
    ELSE select_category(ss, balanced_selection(ss), result)

\* Lines 412-413
ensure_asked_questions(ss) ==
    IF DOMAIN ss.asked_questions_by_category = {}
    THEN [ ss EXCEPT !.asked_questions_by_category =
             [c \in {ss.category_order[i] : i \in 1..Len(ss.category_order)} |-> << >>] ]
    ELSE ss

\* A variant of ask_next_screening_question whose cap test is
\* total_questions_asked > MAX_TOTAL_QUESTIONS.
ask_next_with_late_cap(ss, result) ==
    IF ss.total_questions_asked > MAX_TOTAL_QUESTIONS
    THEN Returned([ add_message(ss, completion_message(ss, TRUE))
                      EXCEPT !.state = "ended" ])
    ELSE IF ss.category_order = << >>
    THEN Returned([ add_message(ss, completion_message(ss, FALSE))
                      EXCEPT !.state = "ended" ])
    ELSE choose_category(ensure_asked_questions(ss), result)

\* A variant of ask_next_screening_question that serves a pending follow-up
\* before it tests the cap.
ask_next_followup_before_cap(ss, result) ==
    IF followup_pending(ss) /\ ss.category_order # << >>
    THEN choose_category(ensure_asked_questions(ss), result)
    ELSE IF ss.total_questions_asked >= MAX_TOTAL_QUESTIONS
    THEN Returned([ add_message(ss, completion_message(ss, TRUE))
                      EXCEPT !.state = "ended" ])
    ELSE IF ss.category_order = << >>
    THEN Returned([ add_message(ss, completion_message(ss, FALSE))
                      EXCEPT !.state = "ended" ])
    ELSE choose_category(ensure_asked_questions(ss), result)

\* A variant of ask_next_screening_question that starts a new round of
\* questions at the cap instead of ending the session.
ask_next_restarting_at_cap(ss, result) ==
    IF ss.category_order = << >>
    THEN Returned([ add_message(ss, completion_message(ss, FALSE))
                      EXCEPT !.state = "ended" ])
    ELSE IF ss.total_questions_asked >= MAX_TOTAL_QUESTIONS
    THEN choose_category(reset_screening(ss, ss.category_order), result)
    ELSE choose_category(ensure_asked_questions(ss), result)

\* ask_next_screening_question(); `result` is how the one generation call it
\* may make ends.
ask_next_screening_question(ss, result) ==
    IF ss.total_questions_asked >= MAX_TOTAL_QUESTIONS
    THEN Returned([ add_message(ss, completion_message(ss, TRUE))
                      EXCEPT !.state = "ended" ])
    ELSE IF ss.category_order = << >>
    THEN Returned([ add_message(ss, completion_message(ss, FALSE))
                      EXCEPT !.state = "ended" ])
    ELSE choose_category(ensure_asked_questions(ss), result)

(***************************************************************************)
(* The profile store.                                                      *)
(***************************************************************************)
\* candidates.json: absent, holding a JSON list (valid), or unreadable.
load_candidate_store(file) ==
    IF file.status = "valid" THEN file.records ELSE << >>

\* save_candidate_profile: the file it leaves, and the exception raised when
\* the file cannot be opened for writing.
save_candidate_profile(file, profile, writable) ==
    IF writable
    THEN [ file |-> [ status |-> "valid",
                      records |-> Append(load_candidate_store(file), profile) ],
           exc |-> "none" ]
    ELSE [ file |-> file, exc |-> "OSError" ]

\* A variant of Profile that leaves the skill categories out of the record.
Profile_without_categories(ss) ==
    [ candidate_data   |-> ss.candidate_data,
      role_summary     |-> ss.role_summary,
      skill_summary    |-> ss.skill_summary,
      seniority_label  |-> ss.seniority_label,
      skill_categories |-> EmptyDict ]

\* profile = {...} (lines 677-683)
Profile(ss) ==
    [ candidate_data   |-> ss.candidate_data,
      role_summary     |-> ss.role_summary,
      skill_summary    |-> ss.skill_summary,
      seniority_label  |-> ss.seniority_label,
      skill_categories |-> ss.skill_categories ]

(***************************************************************************)
(* main(): the branches of one run that received user input.               *)
(***************************************************************************)
UserMsg(user_input) == Msg("user", "input", user_input, "", 0)

\* Global exit handling.
exit_branch(ss) ==
    [ add_message(ss, completion_message(ss, FALSE)) EXCEPT !.state = "ended" ]

store_field(ss, field_key, value) ==
    [ ss EXCEPT !.candidate_data[field_key] = value ]

next_field(ss) == ask_next_field_question(advance_to_next_field(ss))

\* try: generate_...summary(...) except Exception: ""
summary_or_empty(result, text) == IF result = "text" THEN text ELSE ""

\* A variant of tech_stack_accepted that waits for both summaries: when a
\* summary call failed it asks for the tech stack again.
tech_stack_accepted_needs_summaries(ss, categories, role_result, skill_result) ==
    IF role_result # "text" \/ skill_result # "text"
    THEN add_message(ss, AssistantMsg("invalid_tech_stack"))
    ELSE add_message(
        [ ss EXCEPT
            !.skill_categories = categories,
            !.category_order = compute_category_order(categories),
            !.role_summary = "role_summary_text",
            !.skill_summary = "skill_summary_text",
            !.state = "awaiting_consent" ],
        AssistantMsg("consent_prompt"))

\* Lines 635-667: the tech stack is accepted.
tech_stack_accepted(ss, categories, role_result, skill_result) ==
    add_message(
        [ ss EXCEPT
            !.skill_categories = categories,
            !.category_order = compute_category_order(categories),
            !.role_summary = summary_or_empty(role_result, "role_summary_text"),
            !.skill_summary = summary_or_empty(skill_result, "skill_summary_text"),
            !.state = "awaiting_consent" ],
        AssistantMsg("consent_prompt"))

\* Lines 626-633: the value is already stored when the token list is tested.
tech_stack_parsed(ss, tech_list, role_result, skill_result) ==
    IF tech_list = << >>
    THEN add_message(ss, AssistantMsg("invalid_tech_stack"))
    ELSE tech_stack_accepted(ss, categorize_skills(tech_list),
                             role_result, skill_result)

\* A variant of years_parsed that moves to the next field also when the
\* value is rejected.
years_parsed_skipping(ss, years) ==
    IF years = -1
    THEN next_field(add_message(ss, AssistantMsg("invalid_years")))
    ELSE next_field(add_message(
             [ store_field(ss, "years_experience", IntToStr(years))
                 EXCEPT !.seniority_label = derive_seniority_label(years) ],
             AssistantMsg("seniority_ack")))

\* Lines 590-606; the int is kept as its decimal digits.
years_parsed(ss, years) ==
    IF years = -1
    THEN add_message(ss, AssistantMsg("invalid_years"))
    ELSE next_field(add_message(
             [ store_field(ss, "years_experience", IntToStr(years))
                 EXCEPT !.seniority_label = derive_seniority_label(years) ],
             AssistantMsg("seniority_ack")))

\* The collecting_info branch for the field field_key; raw = user_input.strip().
collect_field(ss, field_key, raw, role_result, skill_result) ==
    CASE field_key = "full_name" ->
           next_field(add_message(
               store_field(ss, field_key, strip_label_prefix(raw)),
               AssistantMsg("greeting")))
      [] field_key = "email" ->
           IF ~is_valid_email(raw)
           THEN add_message(ss, AssistantMsg("invalid_email"))
           ELSE next_field(store_field(ss, field_key, strip_label_prefix(raw)))
      [] field_key = "phone" ->
           IF ~is_valid_phone(raw)
           THEN add_message(ss, AssistantMsg("invalid_phone"))
           ELSE next_field(store_field(ss, field_key, normalize_phone(raw)))
      [] field_key = "years_experience" ->
           years_parsed(ss, parse_years_experience(raw))
      [] field_key \in {"desired_positions", "current_location"} ->
           next_field(store_field(ss, field_key, strip_label_prefix(raw)))
      [] field_key = "tech_stack" ->
           tech_stack_parsed(store_field(ss, field_key, strip_label_prefix(raw)),
                             parse_tech_stack(strip_label_prefix(raw)),
                             role_result, skill_result)

collecting_branch(ss, user_input, role_result, skill_result) ==
    collect_field(ss, get_current_field_key(ss), Strip(user_input),
                  role_result, skill_result)

yes_keywords ==
    { <<"y", "e", "s">>, <<"y">>, <<"y", "e", "a", "h">>, <<"y", "e", "p">>,
      <<"s", "u", "r", "e">>, <<"o", "f", " ", "c", "o", "u", "r", "s", "e">>,
      <<"i", " ", "a", "g", "r", "e", "e">>,
      <<"i", " ", "c", "o", "n", "s", "e", "n", "t">> }

no_keywords ==
    { <<"n", "o">>, <<"n">>, <<"n", "o", "p", "e">>,
      <<"i", " ", "d", "o", " ", "n", "o", "t">>, <<"d", "o", "n", "t">>,
      <<"d", "o", "n", "'", "t">> }

Outcome(ss, file, exc) == [ ss |-> ss, file |-> file, exc |-> exc ]

\* The result r of a step that leaves the store alone, with the store.
WithFile(r, file) == Outcome(r.ss, file, r.exc)

\* state = "screening"; prepare_screening_after_consent();
\* ask_next_screening_question()
start_screening(ss, result) ==
    ask_next_screening_question(
        prepare_screening_after_consent([ ss EXCEPT !.state = "screening" ]),
        result)

\* Lines 684-693: `saved` is what save_candidate_profile did; when it raised,
\* the run ends there.
after_save(ss, saved, result) ==
    IF saved.exc # "none" THEN Outcome(ss, saved.file, saved.exc)
    ELSE WithFile(start_screening(add_message(ss, AssistantMsg("consent_granted")),
                                  result),
                  saved.file)

\* Lines 676-693
consent_granted(ss, file, writable, result) ==
    after_save(ss, save_candidate_profile(file, Profile(ss), writable), result)

\* A variant of consent_denied that sends the candidate back to the field
\* collector instead of starting the screening.
consent_denied_restarts(ss, file, result) ==
    Outcome([ add_message(ss, AssistantMsg("consent_denied"))
                EXCEPT !.state = "collecting_info" ],
            file, "none")

\* Lines 696-705
consent_denied(ss, file, result) ==
    WithFile(start_screening(add_message(ss, AssistantMsg("consent_denied")), result),
             file)

\* A variant of consent_answer that takes a reply without a keyword for a
\* refusal.
consent_answer_refusing_by_default(ss, file, answer, writable, result) ==
    IF \E k \in yes_keywords : Contains(answer, k)
    THEN consent_granted([ ss EXCEPT !.consent_status = "granted" ],
                         file, writable, result)
    ELSE consent_denied([ ss EXCEPT !.consent_status = "denied" ], file, result)
\* A variant of consent_answer that tests the no keywords first.
consent_answer_refusal_first(ss, file, answer, writable, result) ==
    IF \E k \in no_keywords : Contains(answer, k)
    THEN consent_denied([ ss EXCEPT !.consent_status = "denied" ], file, result)
    ELSE IF \E k \in yes_keywords : Contains(answer, k)
    THEN consent_granted([ ss EXCEPT !.consent_status = "granted" ],
                         file, writable, result)
    ELSE Outcome(add_message(ss, AssistantMsg("consent_reprompt")), file, "none")
\* answer = user_input.strip().lower(), tested against the two keyword sets
consent_answer(ss, file, answer, writable, result) ==
    IF \E k \in yes_keywords : Contains(answer, k)
    THEN consent_granted([ ss EXCEPT !.consent_status = "granted" ],
                         file, writable, result)
    ELSE IF \E k \in no_keywords : Contains(answer, k)
    THEN consent_denied([ ss EXCEPT !.consent_status = "denied" ], file, result)
    ELSE Outcome(add_message(ss, AssistantMsg("consent_reprompt")), file, "none")

\* The awaiting_consent branch: the session state and store it leaves, and
\* the exception that ended the run, if any.
consent_branch(ss, file, user_input, writable, result) ==
    consent_answer(ss, file, Lower(Strip(user_input)), writable, result)

RECURSIVE SumLen(_, _)
SumLen(d, keys) ==
    IF keys = {} THEN 0
    ELSE Len(d[CHOOSE x \in keys : TRUE])
           + SumLen(d, keys \ {CHOOSE x \in keys : TRUE})

\* sum(len(v) for v in d.values())
TotalLen(d) == SumLen(d, DOMAIN d)

\* The "smart ack": after the first answer and after every fifth.
acknowledge(ss, total_answers) ==
    IF total_answers = 1 THEN add_message(ss, AssistantMsg("ack_first"))
    ELSE IF total_answers % 5 = 0 THEN add_message(ss, AssistantMsg("ack_fifth"))
    ELSE ss

\* A variant of record_answer that also files the answer in the profile, as
\* the candidate's tech stack.
record_answer_into_profile(ss, category, user_input) ==
    [ ss EXCEPT !.answers = DictAppend(@, category, Strip(user_input)),
                !.candidate_data["tech_stack"] = Strip(user_input),
                !.awaiting_followup = TRUE,
                !.last_category_answered = category,
                !.category_question_index = @ + 1 ]
\* A variant of record_answer that does not ask for a follow-up.
record_answer_without_followup(ss, category, user_input) ==
    [ ss EXCEPT !.answers = DictAppend(@, category, Strip(user_input)),
                !.last_category_answered = category,
                !.category_question_index = @ + 1 ]
\* Lines 723-730
record_answer(ss, category, user_input) ==
    [ ss EXCEPT !.answers = DictAppend(@, category, Strip(user_input)),
                !.awaiting_followup = TRUE,
                !.last_category_answered = category,
                !.category_question_index = @ + 1 ]

\* Lines 733-742
answer_recorded(ss, result) ==
    ask_next_screening_question(acknowledge(ss, TotalLen(ss.answers)), result)

\* Lines 716-743, for the current category (or None)
answer_in_category(ss, category, user_input, result) ==
    IF category = "None"
    THEN Returned([ add_message(ss, completion_message(ss, FALSE))
                      EXCEPT !.state = "ended" ])
    ELSE answer_recorded(record_answer(ss, category, user_input), result)

\* The screening branch.
screening_branch(ss, user_input, result) ==
    answer_in_category(ss, get_current_category(ss), user_input, result)

\* handle_fallback: the fallback agent's reply, or the fixed apology.
handle_fallback(ss, result) ==
    IF result = "text"
    THEN add_message(ss, AssistantMsg("fallback_response"))
    ELSE add_message(ss, AssistantMsg("fallback_apology"))

\* st.chat_input(...) returned None: nothing was submitted.
NoInput == << "None" >>

\* The first run of a session asks for the first field before reading input.
first_prompt_due(ss) ==
    /\ ss.state = "collecting_info"
    /\ ss.current_field_index = 0
    /\ messages_empty(ss)

\* A variant of handle_input that tests the exit keywords after the phase
\* branches, so that only the fallback path reaches the test.
handle_input_phase_first(ss, file, user_input, env) ==
    IF ss.state = "collecting_info"
    THEN Outcome(collecting_branch(ss, user_input, env.role, env.skill),
                 file, "none")
    ELSE IF ss.state = "awaiting_consent"
    THEN consent_branch(ss, file, user_input, env.writable, env.question)
    ELSE IF ss.state = "screening"
    THEN WithFile(screening_branch(ss, user_input, env.question), file)
    ELSE IF check_exit_keyword(user_input)
    THEN Outcome(exit_branch(ss), file, "none")
    ELSE Outcome(handle_fallback(ss, env.fallback), file, "none")

\* A variant of handle_input whose screening branch does not end in a rerun:
\* a run that did not raise goes on to the fallback call.
handle_input_screening_falls_through(ss, file, user_input, env) ==
    IF check_exit_keyword(user_input)
    THEN Outcome(exit_branch(ss), file, "none")
    ELSE IF ss.state = "collecting_info"
    THEN Outcome(collecting_branch(ss, user_input, env.role, env.skill),
                 file, "none")
    ELSE IF ss.state = "awaiting_consent"
    THEN consent_branch(ss, file, user_input, env.writable, env.question)
    ELSE IF ss.state = "screening"
    THEN IF screening_branch(ss, user_input, env.question).exc # "none"
         THEN WithFile(screening_branch(ss, user_input, env.question), file)
         ELSE Outcome(handle_fallback(
                          screening_branch(ss, user_input, env.question).ss,
                          env.fallback),
                      file, "none")
    ELSE Outcome(handle_fallback(ss, env.fallback), file, "none")
\* Lines 540-747: the run from add_message("user", user_input) on; ss
\* already holds the user's message.
handle_input(ss, file, user_input, env) ==
    IF check_exit_keyword(user_input)
    THEN Outcome(exit_branch(ss), file, "none")
    ELSE IF ss.state = "collecting_info"
    THEN Outcome(collecting_branch(ss, user_input, env.role, env.skill),
                 file, "none")
    ELSE IF ss.state = "awaiting_consent"
    THEN consent_branch(ss, file, user_input, env.writable, env.question)
    ELSE IF ss.state = "screening"
    THEN WithFile(screening_branch(ss, user_input, env.question), file)
    ELSE Outcome(handle_fallback(ss, env.fallback), file, "none")

\* A variant of main() without the early return of an ended session.
main_without_ended_return(ss, file, user_input, env) ==
    IF first_prompt_due(ss)
    THEN Outcome(ask_next_field_question(ss), file, "none")
    ELSE IF user_input = NoInput THEN Outcome(ss, file, "none")
    ELSE handle_input(add_message(begin_turn(ss), UserMsg(user_input)),
                      file, user_input, env)

\* One run of main() to the point where it returns, reruns or raises.
\* env: what the outside world does during the run (how each generation call
\* ends, whether the store can be written).
main(ss, file, user_input, env) ==
    IF ss.state = "ended" THEN Outcome(ss, file, "none")
    ELSE IF first_prompt_due(ss)
    THEN Outcome(ask_next_field_question(ss), file, "none")
    ELSE IF user_input = NoInput THEN Outcome(ss, file, "none")
    ELSE handle_input(add_message(begin_turn(ss), UserMsg(user_input)),
                      file, user_input, env)

(***************************************************************************)
(* The texts the candidate types.                                          *)
(***************************************************************************)
In_exit == << "e", "x", "i", "t" >>

In_quit == << "q", "u", "i", "t" >>

In_name == << "A", "l" >>

In_name_wendy == << "W", "e", "n", "d", "y" >>

In_email == << "a", "@", "b", ".", "c" >>

In_email_bad == << "a", "@", "b" >>

In_phone == << "1", "2", "3", "4", "5", "6", "7", "8" >>

In_phone_bad == << "1", "2", "3" >>

In_years_1 == << "1" >>

\* "2.5 years"
In_years_2_5 == << "2", ".", "5", " ", "y", "e", "a", "r", "s" >>

In_years_bad == << "n", "/", "a" >>

In_position == << "d", "e", "v" >>

In_location == << "R", "o", "m", "e" >>

In_tech_go == << "G", "o" >>

In_tech_go_sql == << "G", "o", ",", " ", "S", "Q", "L" >>

In_tech_bad == << "x", ":" >>

\* "Tech: Web:"
In_tech_labels == << "T", "e", "c", "h", ":", " ", "W", "e", "b", ":" >>

In_yes == << "y", "e", "s" >>

In_no == << "n", "o" >>

\* "no way"
In_no_way == << "n", "o", " ", "w", "a", "y" >>

\* "hm"
In_hm == << "h", "m" >>

In_ok == << "o", "k" >>

\* The candidate's answers: "a1", "a2", ... in the order they are given.
In_answer(ss) == << "a" >> \o IntToStr(TotalLen(ss.answers) + 1)

(***************************************************************************)
(* The environment: what the candidate types at each point of the          *)
(* interview, the store file a session finds, and what the backend does.   *)
(***************************************************************************)
FieldInputs(field_key) ==
    CASE field_key = "full_name"         -> { In_name, In_name_wendy, In_exit }
      [] field_key = "email"             -> { In_email, In_email_bad, In_exit }
      [] field_key = "phone"             -> { In_phone, In_phone_bad, In_exit }
      [] field_key = "years_experience"  ->
             { In_years_1, In_years_2_5, In_years_bad, In_exit }
      [] field_key = "desired_positions" -> { In_position, In_exit }
      [] field_key = "current_location"  -> { In_location, In_exit }
      [] field_key = "tech_stack"        ->
             { In_tech_go, In_tech_go_sql, In_tech_bad, In_tech_labels, In_exit }

UserInputs(ss) ==
    CASE ss.state = "collecting_info"  -> FieldInputs(get_current_field_key(ss))
      [] ss.state = "awaiting_consent" ->
             { In_yes, In_no, In_no_way, In_ok, In_hm, In_exit }
      [] ss.state = "screening"        -> { In_answer(ss), In_quit }
      [] OTHER                         -> { In_answer(ss), In_exit }

\* The environment of a run in which nothing outside the session fails.
QuietEnv ==
    [ role |-> "text", skill |-> "text", question |-> "text",
      fallback |-> "text", writable |-> TRUE ]

\* The environment of a run in which everything outside the session fails.
FailingEnv ==
    [ role |-> "RuntimeError", skill |-> "RuntimeError",
      question |-> "RuntimeError", fallback |-> "RuntimeError",
      writable |-> FALSE ]

\* Another candidate's record, already in the store.
EarlierProfile == [ Profile(init_session_state) EXCEPT !.seniority_label = "Senior" ]

\* The file a session finds: none, a JSON list, or a file that json.load
\* cannot parse although it holds a record (a truncated list, say).
InitialStores ==
    { [ status |-> "absent",  records |-> << >> ],
      [ status |-> "valid",   records |-> << EarlierProfile >> ],
      [ status |-> "corrupt", records |-> << EarlierProfile >> ] }

(***************************************************************************)
(* save_candidate_profile, statement by statement, in sessions that share  *)
(* candidates.json.                                                        *)
(***************************************************************************)
\* The sessions (Streamlit runs one script thread per browser session).
Sessions == 1..NumSessions

\* A session that is not saving.
SaverIdle == [ pc |-> "idle", data |-> << >> ]

NoSavers == [ i \in Sessions |-> SaverIdle ]

\* The profile session i saves at consent.
SessionProfile(i) ==
    [ Profile(init_session_state) EXCEPT !.candidate_data["full_name"] = IntToStr(i) ]

\* data = load_candidate_store(); data.append(profile)
SaverLoaded(file, profile) ==
    [ pc |-> "open", data |-> Append(load_candidate_store(file), profile) ]

\* CANDIDATE_STORE_PATH.open("w"): the file is truncated; until the dump it
\* is empty, which json.load cannot parse.
TruncatedFile == [ status |-> "corrupt", records |-> << >> ]

\* json.dump(data, f): the file holds the list this session built.
DumpedFile(data) == [ status |-> "valid", records |-> data ]

(***************************************************************************)
(* The state machine.                                                      *)
(***************************************************************************)
Init ==
    /\ session_state = init_session_state
    /\ store \in InitialStores
    /\ run_error = "none"
    /\ gw = GwIdle
    /\ savers = NoSavers

\* The chat input is on the page: the last run went past st.chat_input.
accepts_input(ss) == ss.state # "ended" /\ ~first_prompt_due(ss)

RunMain(user_input, env) ==
    \E r \in { main(session_state, store, user_input, env) } :
        /\ session_state' = r.ss
        /\ store' = r.file
        /\ run_error' = r.exc
        /\ UNCHANGED << gw, savers >>

\* The first run of the session: no input is read, the first field is asked.
FirstRun ==
    /\ first_prompt_due(session_state)
    /\ RunMain(NoInput, QuietEnv)

\* A turn whose input holds an exit keyword.
ExitTurn ==
    \E user_input \in UserInputs(session_state), env \in { QuietEnv, FailingEnv } :
        /\ accepts_input(session_state)
        /\ check_exit_keyword(user_input)
        /\ RunMain(user_input, env)

\* A turn of the field collector.
CollectTurn ==
    \E user_input \in UserInputs(session_state),
       role \in GatewayResults("role_summary"),
       skill \in GatewayResults("skill_summary") :
        /\ accepts_input(session_state)
        /\ session_state.state = "collecting_info"
        /\ ~check_exit_keyword(user_input)
        /\ RunMain(user_input, [ QuietEnv EXCEPT !.role = role, !.skill = skill ])

\* A turn of the consent gate.
ConsentTurn ==
    \E user_input \in UserInputs(session_state),
       question \in GatewayResults("category_question"),
       writable \in BOOLEAN :
        /\ session_state.state = "awaiting_consent"
        /\ ~check_exit_keyword(user_input)
        /\ RunMain(user_input,
                   [ QuietEnv EXCEPT !.question = question, !.writable = writable ])

\* A turn of the screening: an answer, then the next question.
ScreeningTurn ==
    \E user_input \in UserInputs(session_state),
       question \in GatewayResults("category_question") :
        /\ session_state.state = "screening"
        /\ ~check_exit_keyword(user_input)
        /\ Len(DictGet(session_state.answers, get_current_category(session_state)))
             - Len(DictGet(session_state.asked_questions_by_category,
                           get_current_category(session_state)))
               < MaxUnanswered
        /\ RunMain(user_input, [ QuietEnv EXCEPT !.question = question ])

\* A run after the session ended: main() returns before the chat input.
EndedRun ==
    \E user_input \in UserInputs(session_state) \cup {NoInput} :
        /\ session_state.state = "ended"
        /\ RunMain(user_input, QuietEnv)

Next ==
    \/ FirstRun
    \/ ExitTurn
    \/ CollectTurn
    \/ ConsentTurn
    \/ ScreeningTurn
    \/ EndedRun

Spec == Init /\ [][Next]_vars

(***************************************************************************)
(* The sessions in which every generation call succeeds and the store can  *)
(* be written.  The first run is the script run of the page load, which    *)
(* Streamlit always performs; whether the candidate goes on typing is      *)
(* stated by KeepsSubmitting.                                              *)
(***************************************************************************)
LiveTurn ==
    \E user_input \in UserInputs(session_state) :
        /\ accepts_input(session_state)
        /\ RunMain(user_input, QuietEnv)

LiveNext == FirstRun \/ LiveTurn \/ EndedRun

LiveSpec == Init /\ [][LiveNext]_vars /\ WF_vars(FirstRun)

\* The candidate keeps submitting inputs: again and again, either the page
\* accepts no input or a turn takes place that changes the session (while
\* input is accepted, LiveTurn is the only step there is, and an exit keyword
\* always changes the session: this is weak fairness of LiveTurn).
KeepsSubmitting ==
    \/ []<>(~accepts_input(session_state))
    \/ []<><<TRUE>>_vars

(***************************************************************************)
(* ask_next_screening_question on its own: one call after another, from    *)
(* every scheduling state within the bounds.                               *)
(***************************************************************************)
\* The categories of the scheduling states.
SchedCategories == { "Backend", "Data/ML", "Other" }

\* category_order: the duplicate-free sequences of these categories.
SchedOrders ==
    { order \in UNION { [1..n -> SchedCategories] : n \in 1..Cardinality(SchedCategories) } :
        \A i, j \in 1..Len(order) : order[i] = order[j] => i = j }

\* The questions a category holds after `count` questions were recorded in it.
QuestionsAsked(category, count) ==
    [ j \in 1..count |-> QuestionText(category, j) ]

\* A screening state: the order, the questions recorded so far, the category
\* cursor, the follow-up flag and the category last answered.
SchedState(order, counts, idx, flag, last) ==
    [ reset_screening([ init_session_state EXCEPT !.state = "screening" ], order)
        EXCEPT !.asked_questions_by_category =
                   [ c \in DOMAIN counts |-> QuestionsAsked(c, counts[c]) ],
               !.total_questions_asked =
                   TotalLen([ c \in DOMAIN counts |-> QuestionsAsked(c, counts[c]) ]),
               !.current_category_index = idx,
               !.awaiting_followup = flag,
               !.last_category_answered = last ]

SchedInit ==
    /\ \E order \in SchedOrders :
         \E counts \in [ { order[i] : i \in 1..Len(order) } -> 0..MaxCount ],
            idx \in 0..(Len(order) - 1),
            flag \in BOOLEAN,
            last \in { order[i] : i \in 1..Len(order) } \cup { "None" } :
             session_state = SchedState(order, counts, idx, flag, last)
    /\ store = [ status |-> "absent", records |-> << >> ]
    /\ run_error = "none"
    /\ gw = GwIdle
    /\ savers = NoSavers

\* One call of ask_next_screening_question.
SchedAsk ==
    \E result \in GatewayResults("category_question") :
        \E r \in { ask_next_screening_question(session_state, result) } :
            /\ session_state.state = "screening"
            /\ session_state' = r.ss
            /\ run_error' = r.exc
            /\ UNCHANGED << store, gw, savers >>

SchedSpec == SchedInit /\ [][SchedAsk]_vars

(***************************************************************************)
(* The tech-stack prompt on its own: one reply, from every list of          *)
(* technologies within the bounds.                                         *)
(***************************************************************************)
\* The technologies of the replies: two spellings of one Backend entry,
\* another Backend entry, a Frontend entry and one the table does not hold.
TechTokens ==
    { << "P", "y", "t", "h", "o", "n" >>, << "p", "y", "t", "h", "o", "n" >>,
      << "D", "j", "a", "n", "g", "o" >>, << "R", "e", "a", "c", "t" >>,
      << "Z", "i", "g" >> }

TechTokenLists == UNION { [1..n -> TechTokens] : n \in 1..MaxTokens }

\* The reply that lists the technologies, separated by ", ".
RECURSIVE JoinTokens(_)
JoinTokens(tokens) ==
    IF Len(tokens) = 1 THEN Head(tokens)
    ELSE Head(tokens) \o << ",", " " >> \o JoinTokens(Tail(tokens))

\* The session at the tech-stack prompt, the six fields before it filled.
TechPromptState ==
    [ init_session_state EXCEPT
        !.candidate_data =
            [ full_name |-> In_name, email |-> In_email, phone |-> In_phone,
              years_experience |-> << "1" >>, desired_positions |-> In_position,
              current_location |-> In_location, tech_stack |-> << >> ],
        !.seniority_label = "Junior",
        !.current_field_index = 6,
        !.messages =
            [ earlier |-> TRUE,
              tail |-> << UserMsg(In_location),
                          Msg("assistant", "field_prompt", << >>, "tech_stack", 0) >> ] ]

TechInit ==
    /\ session_state = TechPromptState
    /\ store = [ status |-> "absent", records |-> << >> ]
    /\ run_error = "none"
    /\ gw = GwIdle
    /\ savers = NoSavers

\* The turn that reads the reply to the tech-stack prompt.
TechTurn ==
    \E tokens \in TechTokenLists :
        /\ accepts_input(session_state)
        /\ session_state.state = "collecting_info"
        /\ get_current_field_key(session_state) = "tech_stack"
        /\ RunMain(JoinTokens(tokens), QuietEnv)

TechSpec == TechInit /\ [][TechTurn]_vars

(***************************************************************************)
(* The gateway on its own: one call of _safe_chat_completion, step by step.*)
(***************************************************************************)
GwInit ==
    /\ session_state = init_session_state
    /\ store = [ status |-> "absent", records |-> << >> ]
    /\ run_error = "none"
    /\ gw = GwIdle
    /\ savers = NoSavers

\* An agent function enters _safe_chat_completion.
GwCall ==
    \E op \in GatewayOps :
        /\ gw.pc = "idle"
        /\ gw' = GwStart(op)
        /\ UNCHANGED << session_state, store, run_error, savers >>

\* One attempt: the backend call and the except clause that catches it.
GwAttempt ==
    \E outcome \in BackendOutcomes :
        /\ gw.pc = "try"
        /\ gw' = GwTry(gw, outcome)
        /\ UNCHANGED << session_state, store, run_error, savers >>

\* The backoff sleep, then the next attempt or the RuntimeError.
GwBackoff ==
    /\ gw.pc = "sleep"
    /\ gw' = GwSleep(gw)
    /\ UNCHANGED << session_state, store, run_error, savers >>

GwNext == GwCall \/ GwAttempt \/ GwBackoff

GwSpec == GwInit /\ [][GwNext]_vars

(***************************************************************************)
(* The store on its own: the sessions grant consent at the same time and   *)
(* each runs save_candidate_profile; their statements interleave.          *)
(***************************************************************************)
StoreInit ==
    /\ session_state = init_session_state
    /\ store \in InitialStores
    /\ run_error = "none"
    /\ gw = GwIdle
    /\ savers = NoSavers

\* main() calls save_candidate_profile(profile) in session i.
SaveCall ==
    \E i \in Sessions :
        /\ savers[i].pc = "idle"
        /\ savers' = [ savers EXCEPT ![i].pc = "load" ]
        /\ UNCHANGED << session_state, store, run_error, gw >>

\* Lines 497-498
SaveLoad ==
    \E i \in Sessions :
        /\ savers[i].pc = "load"
        /\ savers' = [ savers EXCEPT ![i] = SaverLoaded(store, SessionProfile(i)) ]
        /\ UNCHANGED << session_state, store, run_error, gw >>

\* Line 499: the file is opened for writing, or open() raises OSError and
\* the call ends there, the file untouched.
SaveOpen ==
    \E i \in Sessions, writable \in BOOLEAN :
        /\ savers[i].pc = "open"
        /\ savers' = [ savers EXCEPT ![i].pc = IF writable THEN "dump" ELSE "raised" ]
        /\ store' = IF writable THEN TruncatedFile ELSE store
        /\ UNCHANGED << session_state, run_error, gw >>

\* Line 500
SaveDump ==
    \E i \in Sessions :
        /\ savers[i].pc = "dump"
        /\ savers' = [ savers EXCEPT ![i].pc = "done" ]
        /\ store' = DumpedFile(savers[i].data)
        /\ UNCHANGED << session_state, run_error, gw >>

StoreNext == SaveCall \/ SaveLoad \/ SaveOpen \/ SaveDump

StoreSpec == StoreInit /\ [][StoreNext]_vars

(***************************************************************************)
(* Properties of the question scheduler.                                   *)
(***************************************************************************)
\* The last message of the transcript (of the latest turn's messages).
LastMessage(ss) == ss.messages.tail[Len(ss.messages.tail)]

\* The kinds of the messages the latest turn appended.
TailKinds(ss) == { ss.messages.tail[i].kind : i \in 1..Len(ss.messages.tail) }

\* C1: in every reachable state total_questions_asked is at most
\* MAX_TOTAL_QUESTIONS, whatever the candidate types and however the
\* generation calls end.
C1_TotalWithinCap ==
    session_state.total_questions_asked <= MAX_TOTAL_QUESTIONS

\* The cap is reached in a session in which a generation call failed: the
\* session holds as many answers as questions while a question is open.
C1_CapReachedAfterFailure ==
    /\ session_state.state = "screening"
    /\ session_state.total_questions_asked = MAX_TOTAL_QUESTIONS
    /\ TotalLen(session_state.answers) = MAX_TOTAL_QUESTIONS

\* What ask_next_screening_question leaves when it is called on ss at the cap:
\* r is what the call hands back.
CapOutcome(ss, r) ==
    /\ r.exc = "none"
    /\ r.ss.state = "ended"
    /\ r.ss.messages.tail = Append(ss.messages.tail, completion_message(ss, TRUE))
    /\ r.ss.total_questions_asked = ss.total_questions_asked
    /\ r.ss.asked_questions_by_category = ss.asked_questions_by_category
    /\ r.ss = [ ss EXCEPT !.state = "ended", !.messages = r.ss.messages ]

\* C2: whenever ask_next_screening_question is called with
\* total_questions_asked = MAX_TOTAL_QUESTIONS it appends the max-reached
\* completion message and sets the phase to ended; it records no question and
\* makes no generation call (what it leaves does not depend on how a call
\* would end, and nothing is raised), with a follow-up pending or not.
C2_CapEndsScreening ==
    (session_state.state = "screening"
       /\ session_state.total_questions_asked = MAX_TOTAL_QUESTIONS)
    => \A result \in GatewayResults("category_question"), pending \in BOOLEAN :
         CapOutcome([ session_state EXCEPT !.awaiting_followup = pending ],
                    ask_next_screening_question(
                        [ session_state EXCEPT !.awaiting_followup = pending ],
                        result))

\* The session a call at the cap ended: 15 questions recorded, and the turn
\* of the last answer closed by the max-reached completion message.
C2_EndedAtCap ==
    /\ session_state.state = "ended"
    /\ session_state.total_questions_asked = MAX_TOTAL_QUESTIONS
    /\ session_state.messages.tail # << >>
    /\ LastMessage(session_state).kind = "completion_max_reached"
    /\ "question" \notin TailKinds(session_state)

\* C3: a question recorded during the screening goes to the category of the
\* answer the same turn stored, and of the answer stored before it when that
\* answer is still without a question (the run that stored it raised).
C3_FollowUpSameCategory ==
    [][ \A c \in DOMAIN session_state'.asked_questions_by_category :
          ( /\ session_state.state = "screening"
            /\ Len(session_state'.asked_questions_by_category[c])
                 > Len(DictGet(session_state.asked_questions_by_category, c)) )
          => /\ session_state'.last_category_answered = c
             /\ Len(DictGet(session_state'.answers, c))
                  > Len(DictGet(session_state.answers, c))
             /\ ( run_error # "none"
                    /\ session_state.last_category_answered # "None" )
                => session_state.last_category_answered = c
      ]_vars

\* A session with two categories in which an answer got its follow-up.
C3_FollowUpAsked ==
    /\ session_state.state = "screening"
    /\ Len(session_state.category_order) >= 2
    /\ \E c \in DOMAIN session_state.answers :
         /\ session_state.last_category_answered = c
         /\ Len(session_state.answers[c]) >= 1
         /\ Len(session_state.asked_questions_by_category[c])
              = Len(session_state.answers[c]) + 1
    /\ LastMessage(session_state).kind = "question"

\* C4: in a session with at least two categories that reached the cap with
\* every generation call successful and every question answered (15
\* questions, 15 answers), every category of category_order received at
\* least one question.
C4_NoCategoryStarved ==
    ( /\ session_state.state = "ended"
      /\ Len(session_state.category_order) >= 2
      /\ session_state.total_questions_asked = MAX_TOTAL_QUESTIONS
      /\ TotalLen(session_state.answers) = MAX_TOTAL_QUESTIONS )
    => \A i \in 1..Len(session_state.category_order) :
         Len(DictGet(session_state.asked_questions_by_category,
                     session_state.category_order[i])) >= 1

\* C5: in every reachable state total_questions_asked is the number of
\* questions held in asked_questions_by_category, also after a generation
\* call failed.
C5_TotalIsSumOfAsked ==
    session_state.total_questions_asked
        = TotalLen(session_state.asked_questions_by_category)

\* A screening with questions recorded whose latest generation call failed.
C5_AfterFailedGeneration ==
    /\ session_state.state = "screening"
    /\ run_error = "RuntimeError"
    /\ session_state.total_questions_asked >= 2

\* C6: in every reachable state no category holds more answers than
\* questions.
C6_AnswersWithinQuestions ==
    \A c \in DOMAIN session_state.answers :
        Len(session_state.answers[c])
            <= Len(DictGet(session_state.asked_questions_by_category, c))

\* C7: no run of main() ends with the exception of a failed question
\* generation call: the failure is handled inside the turn.
C7_GenerationFailureHandled ==
    run_error \notin (GatewayResults("category_question") \ {"text"})

\* C8: a finished gateway call has returned a string or raised RuntimeError;
\* no exception of the backend leaves the gateway as it is.
C8_NoRawBackendException ==
    gw.pc = "done" => gw.result \in {"text", "RuntimeError"}

\* The position of a phase along collecting_info, awaiting_consent,
\* screening, ended.
PhaseRank(state) ==
    CASE state = "collecting_info"  -> 0
      [] state = "awaiting_consent" -> 1
      [] state = "screening"        -> 2
      [] state = "ended"            -> 3

\* C9: no step takes the phase from a later phase to an earlier one.
C9_PhaseMovesForward ==
    [][ PhaseRank(session_state'.state) >= PhaseRank(session_state.state) ]_vars

\* A session that went through the four phases: consent was answered and
\* questions were asked before it ended.
C9_AllPhasesVisited ==
    /\ session_state.state = "ended"
    /\ session_state.consent_status = "denied"
    /\ session_state.total_questions_asked >= 1

\* C10: once the phase is ended no step changes the session state or the
\* store, and no run raises: no input is processed, no question generated.
C10_EndedIsTerminal ==
    [][ session_state.state = "ended"
          => /\ session_state' = session_state
             /\ store' = store
             /\ run_error' = "none" ]_vars

\* An ended session of a candidate who gave consent: the runs that follow
\* find the completion message as the last of the transcript.
C10_RunAfterEnd ==
    /\ session_state.state = "ended"
    /\ session_state.consent_status = "granted"
    /\ session_state.messages.tail # << >>
    /\ LastMessage(session_state).kind \in {"completion", "completion_max_reached"}

(***************************************************************************)
(* Properties of the turn handler: exit, field collection, consent.        *)
(***************************************************************************)
\* The step is a turn that read user input: the run appended the user's
\* message first.
TurnWithInput ==
    /\ session_state.state # "ended"
    /\ session_state' # session_state
    /\ session_state'.messages.tail # << >>
    /\ Head(session_state'.messages.tail).role = "user"

\* The text the turn read.
TurnInput == Head(session_state'.messages.tail).text

\* C11: in every non-ended phase a turn whose input holds an exit keyword
\* appends one unflagged completion message and ends the session; the field
\* cursor, the profile, the consent status, the store, the answers and the
\* question history stay as they were, and nothing is raised however a
\* generation call or a store write would end.
C11_ExitEndsSession ==
    [][ (TurnWithInput /\ check_exit_keyword(TurnInput))
        => /\ session_state'.messages.tail
                = << UserMsg(TurnInput), completion_message(session_state, FALSE) >>
           /\ session_state' =
                [ session_state EXCEPT !.state = "ended",
                                       !.messages = session_state'.messages ]
           /\ store' = store
           /\ run_error' = "none"
      ]_vars

\* A session ended by "quit" during the screening, its answers kept.
C11_ExitDuringScreening ==
    /\ session_state.state = "ended"
    /\ Len(session_state.messages.tail) = 2
    /\ Head(session_state.messages.tail).text = In_quit
    /\ LastMessage(session_state).kind = "completion"
    /\ TotalLen(session_state.answers) >= 1
    /\ session_state.total_questions_asked >= 2

\* The input is an exit command: one of its words is an exit keyword.
IsExitCommand(text) ==
    \E i \in 1..Len(SplitSpace(Lower(text))) :
        SplitSpace(Lower(text))[i] \in EXIT_KEYWORDS

\* The value raw passes the validation of the field field_key.
ValidFor(field_key, raw) ==
    CASE field_key = "email"            -> is_valid_email(raw)
      [] field_key = "phone"            -> is_valid_phone(raw)
      [] field_key = "years_experience" -> parse_years_experience(raw) # -1
      [] field_key = "tech_stack"       ->
             parse_tech_stack(strip_label_prefix(raw)) # << >>
      [] OTHER                          -> TRUE

\* The turn read, during the field collection, a value that is valid for the
\* current field and is not an exit command.
ValidFieldTurn ==
    /\ TurnWithInput
    /\ session_state.state = "collecting_info"
    /\ ~IsExitCommand(TurnInput)
    /\ ValidFor(get_current_field_key(session_state), Strip(TurnInput))

\* C12: every turn of the field collection whose input is valid for the
\* current field is accepted: the cursor moves on by exactly one field, or,
\* at the last field, the phase becomes awaiting_consent; a valid value that
\* holds the letters of an exit keyword (the name "Wendy") does not end the
\* session.
C12_ValidInputAdvances ==
    [][ ValidFieldTurn
        => /\ session_state'.state # "ended"
           /\ \/ /\ session_state'.state = "collecting_info"
                 /\ session_state'.current_field_index
                      = session_state.current_field_index + 1
              \/ /\ session_state'.state = "awaiting_consent"
                 /\ session_state.current_field_index = Len(REQUIRED_FIELDS) - 1
      ]_vars

\* The corrective message of each validated field.
CorrectiveKind(field_key) ==
    CASE field_key = "email"            -> "invalid_email"
      [] field_key = "phone"            -> "invalid_phone"
      [] field_key = "years_experience" -> "invalid_years"
      [] field_key = "tech_stack"       -> "invalid_tech_stack"
      [] OTHER                          -> "none"

\* The turn read, during the field collection, a value that fails the
\* validation of the current field (and holds no exit keyword).
InvalidFieldTurn ==
    /\ TurnWithInput
    /\ session_state.state = "collecting_info"
    /\ ~check_exit_keyword(TurnInput)
    /\ ~ValidFor(get_current_field_key(session_state), Strip(TurnInput))

\* C13: when the input fails the validation of the current field, the turn
\* appends exactly one assistant message, the corrective one of that field,
\* and leaves current_field_index and the phase as they were, so that the
\* next turn validates the same field.
C13_RejectedInputKeepsField ==
    [][ InvalidFieldTurn
        => /\ session_state'.messages.tail
                = << UserMsg(TurnInput),
                     AssistantMsg(CorrectiveKind(get_current_field_key(session_state))) >>
           /\ session_state'.current_field_index = session_state.current_field_index
           /\ session_state'.state = "collecting_info"
           /\ get_current_field_key(session_state')
                = get_current_field_key(session_state)
           /\ run_error' = "none"
      ]_vars

\* A rejected years-of-experience value: the corrective message is the last
\* of the transcript and the cursor is still on the field.
C13_YearsRejected ==
    /\ session_state.state = "collecting_info"
    /\ get_current_field_key(session_state) = "years_experience"
    /\ Len(session_state.messages.tail) = 2
    /\ Head(session_state.messages.tail).text = In_years_bad
    /\ LastMessage(session_state).kind = "invalid_years"

\* The reply of a consent turn, as the code tests it.
ConsentReply == Lower(Strip(TurnInput))

\* The turn read a reply to the consent prompt (one without exit keyword).
ConsentReplyTurn ==
    /\ TurnWithInput
    /\ session_state.state = "awaiting_consent"
    /\ ~check_exit_keyword(TurnInput)

\* The turn read an affirmative reply: it holds one of the yes keywords.
AffirmativeTurn ==
    /\ ConsentReplyTurn
    /\ \E k \in yes_keywords : Contains(ConsentReply, k)

\* The records a readable store holds.
RecordsOf(file) == IF file.status = "valid" THEN file.records ELSE << >>

\* C14: an affirmative reply in awaiting_consent, with a store that can be
\* read (absent or a JSON list) and written (the write did not raise), sets
\* consent to granted and the phase to screening, and leaves in the store its
\* previous records followed by exactly one new record holding the session's
\* candidate data, summaries, seniority label and skill categories as they
\* were at consent time.
C14_GrantedConsentPersistsProfile ==
    [][ (AffirmativeTurn /\ store.status # "corrupt" /\ run_error' # "OSError")
        => /\ session_state'.consent_status = "granted"
           /\ session_state'.state = "screening"
           /\ store'.status = "valid"
           /\ store'.records
                = Append(RecordsOf(store),
                         [ candidate_data   |-> session_state.candidate_data,
                           role_summary     |-> session_state.role_summary,
                           skill_summary    |-> session_state.skill_summary,
                           seniority_label  |-> session_state.seniority_label,
                           skill_categories |-> session_state.skill_categories ])
      ]_vars

\* A screening that consent opened on a store that held another candidate's
\* record: the store holds that record and then this candidate's.
C14_ProfileAppended ==
    /\ session_state.state = "screening"
    /\ session_state.consent_status = "granted"
    /\ session_state.total_questions_asked = 1
    /\ store.status = "valid"
    /\ Len(store.records) = 2
    /\ store.records[1] = EarlierProfile
    /\ store.records[2].candidate_data = session_state.candidate_data
    /\ store.records[2].skill_categories = session_state.skill_categories

\* The turn read a negative reply: it holds one of the no keywords.
NegativeTurn ==
    /\ ConsentReplyTurn
    /\ \E k \in no_keywords : Contains(ConsentReply, k)

\* C15: a negative reply in awaiting_consent (a refusal, holding one of the
\* no keywords) leaves the store as it was, sets consent to denied and the
\* phase to screening, and the first question is asked (when its generation
\* call returns).
C15_DeniedConsentSkipsStore ==
    [][ NegativeTurn
        => /\ store' = store
           /\ session_state'.consent_status = "denied"
           /\ session_state'.state = "screening"
           /\ run_error' = "none"
                => /\ session_state'.total_questions_asked = 1
                   /\ LastMessage(session_state').kind = "question"
      ]_vars

\* C16: when consent is granted the interview goes on whatever the store
\* does: nothing raised by reading or writing the store ends the run, and the
\* phase becomes screening.
C16_StoreFailureDoesNotAbort ==
    [][ AffirmativeTurn
        => /\ run_error' # "OSError"
           /\ session_state'.consent_status = "granted"
           /\ session_state'.state = "screening"
      ]_vars

\* What a run that accepted the tech stack leaves (r), given how the role
\* summary call and the skill summary call ended.
SummaryOutcome(r, role, skill) ==
    /\ r.exc = "none"
    /\ r.ss.state = "awaiting_consent"
    /\ r.ss.messages.tail[Len(r.ss.messages.tail)] = AssistantMsg("consent_prompt")
    /\ r.ss.role_summary = (IF role = "text" THEN "role_summary_text" ELSE "")
    /\ r.ss.skill_summary = (IF skill = "text" THEN "skill_summary_text" ELSE "")

\* C18: when the tech stack is accepted, however the role summary call and
\* the skill summary call end, the run raises nothing, a failed call leaves
\* its summary empty (a successful one stores its text), the consent prompt
\* is appended and the phase becomes awaiting_consent in the same turn.
C18_SummaryFailureDoesNotBlock ==
    ( /\ session_state.state = "collecting_info"
      /\ get_current_field_key(session_state) = "tech_stack" )
    => \A user_input \in { In_tech_go, In_tech_go_sql },
          role \in GatewayResults("role_summary"),
          skill \in GatewayResults("skill_summary") :
         SummaryOutcome(
             main(session_state, store, user_input,
                  [ QuietEnv EXCEPT !.role = role, !.skill = skill ]),
             role, skill)

\* The consent prompt was reached although the role summary call failed:
\* the role summary is empty, the skill summary is stored.
C18_ConsentPromptWithoutRoleSummary ==
    /\ session_state.state = "awaiting_consent"
    /\ session_state.role_summary = ""
    /\ session_state.skill_summary = "skill_summary_text"
    /\ LastMessage(session_state) = AssistantMsg("consent_prompt")

\* C20: a save never removes or alters a record the store held: whenever
\* the store changes, it holds its previous records, in order, followed by
\* one new record; also when the file it found could not be parsed.
C20_StoreIsAppendOnly ==
    [][ store' # store
        => /\ Len(store'.records) = Len(store.records) + 1
           /\ SubSeq(store'.records, 1, Len(store.records)) = store.records
      ]_vars

\* C17: when the sessions have all saved their profile, whatever the
\* interleaving of their load and write steps, the store holds the profile of
\* each of them.
C17_NoLostUpdate ==
    (\A i \in Sessions : savers[i].pc = "done")
    => \A i \in Sessions :
         \E k \in 1..Len(store.records) : store.records[k] = SessionProfile(i)

\* C19 as stated: in a session where every generation call succeeds and the
\* candidate keeps submitting inputs, the phase eventually becomes ended.
C19_SessionEnds ==
    KeepsSubmitting => <>(session_state.state = "ended")

\* C19, from the screening on: in a session where every generation call
\* succeeds and the candidate keeps submitting inputs, a session that reached
\* the screening eventually ends, and it never records more than
\* MAX_TOTAL_QUESTIONS answers.
C19_ScreeningEnds ==
    /\ [](TotalLen(session_state.answers) <= MAX_TOTAL_QUESTIONS)
    /\ KeepsSubmitting
         => ((session_state.state = "screening") ~> (session_state.state = "ended"))

\* A session that the cap ended after the fifteenth answer, no call having
\* failed.
C19_EndedAfterFifteenAnswers ==
    /\ session_state.state = "ended"
    /\ session_state.total_questions_asked = MAX_TOTAL_QUESTIONS
    /\ TotalLen(session_state.answers) = MAX_TOTAL_QUESTIONS
    /\ LastMessage(session_state).kind = "completion_max_reached"

(***************************************************************************)
(* Properties of the follow-up flag, the balanced selection and the        *)
(* generation request.                                                     *)
(***************************************************************************)
\* The latest turn stored an answer and recorded no question after it.
AnswerWithoutQuestion(ss) ==
    /\ ss.messages.tail # << >>
    /\ Head(ss.messages.tail).role = "user"
    /\ "question" \notin TailKinds(ss)
    /\ ss.last_category_answered \in DOMAIN ss.answers
    /\ ss.answers[ss.last_category_answered] # << >>
    /\ ss.answers[ss.last_category_answered]
           [Len(ss.answers[ss.last_category_answered])]
         = Strip(Head(ss.messages.tail).text)

\* The step recorded a question.
QuestionRecorded ==
    /\ session_state'.messages # session_state.messages
    /\ "question" \in TailKinds(session_state')

\* C21: awaiting_followup is true only in states whose latest turn stored an
\* answer and recorded no question after it, and then
\* last_category_answered is set; every step that records a question leaves
\* awaiting_followup false.
C21_FollowUpFlagConsumed ==
    /\ [](session_state.awaiting_followup
            => /\ session_state.last_category_answered \notin {"None", ""}
               /\ AnswerWithoutQuestion(session_state))
    /\ [][ QuestionRecorded => ~session_state'.awaiting_followup ]_vars

\* A session that stored the answer to its fifteenth question: the flag is
\* set and the cap ended the session before the follow-up.
C21_FlagSetAtCap ==
    /\ session_state.awaiting_followup
    /\ session_state.state = "ended"
    /\ session_state.total_questions_asked = MAX_TOTAL_QUESTIONS
    /\ TotalLen(session_state.answers) >= 1
    /\ LastMessage(session_state).kind = "completion_max_reached"
\* The number of questions recorded in the category at index i (from 0).
CountAt(ss, i) ==
    Len(DictGet(ss.asked_questions_by_category, ss.category_order[i + 1]))

\* The number of steps forward, wrapping at the end of category_order, from
\* index `from` to index `to`.
StepsForward(ss, from, to) ==
    (to - from + Len(ss.category_order)) % Len(ss.category_order)

\* The index of the first category at or after current_category_index, in
\* circular order, whose count is the minimum count.
FirstMinimalFromCursor(ss) ==
    CHOOSE i \in 0..(Len(ss.category_order) - 1) :
        /\ \A j \in 0..(Len(ss.category_order) - 1) : CountAt(ss, i) <= CountAt(ss, j)
        /\ \A j \in 0..(Len(ss.category_order) - 1) :
             (\A k \in 0..(Len(ss.category_order) - 1) : CountAt(ss, j) <= CountAt(ss, k))
             => StepsForward(ss, ss.current_category_index, i)
                  <= StepsForward(ss, ss.current_category_index, j)

\* A call below the cap that finds no follow-up pending.
BalancedCall ==
    /\ session_state.state = "screening"
    /\ session_state.total_questions_asked < MAX_TOTAL_QUESTIONS
    /\ ~( session_state.awaiting_followup
          /\ session_state.last_category_answered \notin {"None", ""} )

\* C22: a call of ask_next_screening_question that finds no follow-up pending
\* sets current_category_index to the index of the first category, at or
\* after the cursor in circular order, whose question count is the minimum;
\* the question it records goes to that category and to no other.
C22_BalancedSelectionFirstMinimal ==
    [][ BalancedCall
        => /\ session_state'.current_category_index
                = FirstMinimalFromCursor(session_state)
           /\ run_error' = "none"
                => \A i \in 0..(Len(session_state.category_order) - 1) :
                     CountAt(session_state', i)
                       = CountAt(session_state, i)
                           + IF i = FirstMinimalFromCursor(session_state) THEN 1 ELSE 0
      ]_vars

\* A selection that started at the cursor: no category was answered before,
\* the cursor was at the last of three categories, and the question went to
\* that category although the second one, earlier in category_order, held as
\* few questions.
C22_SelectionFromCursor ==
    /\ Len(session_state.category_order) = 3
    /\ session_state.last_category_answered = "None"
    /\ session_state.current_category_index = 2
    /\ Len(session_state.messages.tail) = 1
    /\ LastMessage(session_state).kind = "question"
    /\ LastMessage(session_state).about = session_state.category_order[3]
    /\ CountAt(session_state, 0) = 1
    /\ CountAt(session_state, 1) = 0
    /\ CountAt(session_state, 2) = 1

\* `window` holds the last min(size, Len(list)) entries of `list`, in the
\* order of the list.
IsLatestWindow(window, list, size) ==
    /\ Len(window) = IF Len(list) < size THEN Len(list) ELSE size
    /\ \A k \in 1..Len(window) : window[k] = list[Len(list) - Len(window) + k]

\* The request fits a category that held the questions `asked` before the
\* call and holds the answers `answered`.
RequestFits(request, asked, answered) ==
    /\ request.question_number = Len(asked) + 1
    /\ IsLatestWindow(request.previously_asked_questions, asked, 5)
    /\ IsLatestWindow(request.answers_in_category, answered, 3)
    /\ request.last_answer
         = IF answered = << >> THEN << >> ELSE answered[Len(answered)]

\* The questions a list held before its last one was appended.
BeforeLast(list) == SubSeq(list, 1, Len(list) - 1)

\* C23: the request of every question recorded in a category c carries the
\* number of questions recorded in c before it plus one, the last min(5, n)
\* of those questions oldest first, the last min(3, m) answers of c in order,
\* and as last_answer the most recent answer of c (empty when c has none).
C23_RequestWindows ==
    [][ QuestionRecorded
        => /\ LastMessage(session_state').kind = "question"
           /\ LastMessage(session_state').text.category
                = LastMessage(session_state').about
           /\ RequestFits(
                LastMessage(session_state').text,
                BeforeLast(session_state'.asked_questions_by_category
                               [LastMessage(session_state').about]),
                session_state'.answers[LastMessage(session_state').about])
      ]_vars

\* The eighth question of a category with seven answers: the request holds
\* questions 3 to 7 and answers 5 to 7.
C23_WindowsFull ==
    /\ session_state.state = "screening"
    /\ LastMessage(session_state).kind = "question"
    /\ LastMessage(session_state).text.question_number = 8
    /\ Len(LastMessage(session_state).text.previously_asked_questions) = 5
    /\ LastMessage(session_state).text.previously_asked_questions[1].question_number = 3
    /\ Len(session_state.answers[LastMessage(session_state).about]) = 7
    /\ LastMessage(session_state).text.answers_in_category
         = SubSeq(session_state.answers[LastMessage(session_state).about], 5, 7)
    /\ LastMessage(session_state).text.answers_in_category[1]
         # LastMessage(session_state).text.answers_in_category[3]
(***************************************************************************)
(* Properties of the retry loop of the gateway.                            *)
(***************************************************************************)
\* The errors the retry loop catches.
RetryableErrors == { "RateLimitError", "APITimeoutError", "APIError" }

\* C24: one gateway call makes at most max_retries backend attempts; an
\* attempt is made only while the call has no result, so the first text ends
\* it; an attempt that failed with a rate-limit or API error is followed by
\* another one while attempts remain; RuntimeError is raised only after
\* max_retries attempts that each failed with such an error.
C24_BoundedRetry ==
    /\ [](gw.calls <= max_retries)
    /\ []( gw.result = "RuntimeError"
             => /\ gw.calls = max_retries
                /\ Len(gw.slept) = max_retries
                /\ gw.last_exception \in RetryableErrors )
    /\ []( gw.result = "text" => Len(gw.slept) = gw.calls - 1 )
    /\ [][ /\ gw'.calls > gw.calls
             => /\ gw.result = "none"
                /\ gw'.calls = gw.calls + 1
                /\ gw.calls = Len(gw.slept)
           /\ gw.result # "none" => gw' = gw
           /\ ( gw.pc = "try" /\ gw'.last_exception \in RetryableErrors
                  /\ gw'.result = "none" )
                => gw'.pc = "sleep"
           /\ ( gw.pc = "sleep" /\ gw.calls < max_retries )
                => ( gw'.pc = "try" /\ gw'.result = "none" )
      ]_vars

\* A call that raised RuntimeError: its first attempt met a rate limit, its
\* second an API error, and it slept 4 and then 6 seconds.
C24_FailedAfterRetries ==
    /\ gw.pc = "done"
    /\ gw.result = "RuntimeError"
    /\ gw.calls = max_retries
    /\ gw.slept = << base_sleep, api_sleep * 2 >>
    /\ gw.last_exception = "APIError"
(***************************************************************************)
(* Properties of the parsers of the profile fields.                        *)
(***************************************************************************)
\* The turn read a reply to the years-of-experience prompt that holds a
\* number.
YearsTurn ==
    /\ TurnWithInput
    /\ session_state.state = "collecting_info"
    /\ get_current_field_key(session_state) = "years_experience"
    /\ ~check_exit_keyword(TurnInput)
    /\ \E i \in 1..Len(TurnInput) : IsDigit(TurnInput[i])

\* C25: a reply to the years prompt that holds a number is stored as an
\* integer from 0 to 40; "2.5 years" is stored as 3, the half rounded up,
\* and its seniority label is "Mid-level".
C25_HalfYearRoundedUp ==
    [][ YearsTurn
        => /\ DigitsToInt(session_state'.candidate_data["years_experience"]) \in 0..40
           /\ TurnInput = In_years_2_5
                => /\ session_state'.candidate_data["years_experience"] = << "3" >>
                   /\ session_state'.seniority_label = "Mid-level"
      ]_vars
\* The entries of the lookup table.
KnownSkills ==
    Rules_Backend \cup Rules_Frontend \cup Rules_DataML
        \cup Rules_DevOpsCloud \cup Rules_QATesting \cup Rules_Mobile

\* tokens[i] is the first occurrence of its skill, compared in lower case.
FirstOccurrence(tokens, i) ==
    \A j \in 1..(i - 1) : Lower(tokens[j]) # Lower(tokens[i])

\* The categories that hold the skill, compared in lower case.
CategoriesHolding(categories, skill) ==
    { c \in DOMAIN categories :
        \E k \in 1..Len(categories[c]) : Lower(categories[c][k]) = Lower(skill) }

\* `skills` are first occurrences of `tokens`, as written, in their order.
FirstOccurrencesInOrder(skills, tokens) ==
    \E pos \in [1..Len(skills) -> 1..Len(tokens)] :
        /\ \A k \in 1..Len(skills) :
             skills[k] = tokens[pos[k]] /\ FirstOccurrence(tokens, pos[k])
        /\ \A k, l \in 1..Len(skills) : k < l => pos[k] < pos[l]

\* The category map suits the token list.
WellCategorized(categories, tokens) ==
    /\ DOMAIN categories \subseteq
         { CATEGORY_PRIORITY[i] : i \in 1..Len(CATEGORY_PRIORITY) }
    /\ \A i \in 1..Len(tokens) :
         /\ Cardinality(CategoriesHolding(categories, tokens[i])) = 1
         /\ Lower(tokens[i]) \notin KnownSkills
              => CategoriesHolding(categories, tokens[i]) = { "Other" }
    /\ \A c \in DOMAIN categories :
         /\ categories[c] # << >>
         /\ FirstOccurrencesInOrder(categories[c], tokens)
         /\ \A k, l \in 1..Len(categories[c]) :
              k # l => Lower(categories[c][k]) # Lower(categories[c][l])

\* "Python, python, Django"
PythonPythonDjango ==
    << << "P", "y", "t", "h", "o", "n" >>, << "p", "y", "t", "h", "o", "n" >>,
       << "D", "j", "a", "n", "g", "o" >> >>

\* C26: the category map of a reply that lists technologies places every
\* distinct skill (compared in lower case) in exactly one category, as it was
\* first written and in the order of the first occurrences, without a
\* duplicate inside a category, and a skill the lookup table does not hold in
\* "Other"; "Python, python, Django" gives Backend: [Python, Django].
C26_SkillsCategorizedOnce ==
    [][ \A tokens \in TechTokenLists :
          ( /\ TurnWithInput
            /\ session_state.state = "collecting_info"
            /\ get_current_field_key(session_state) = "tech_stack"
            /\ TurnInput = JoinTokens(tokens) )
          => /\ WellCategorized(session_state'.skill_categories, tokens)
             /\ tokens = PythonPythonDjango
                  => session_state'.skill_categories
                       = [ c \in { "Backend" } |->
                             << PythonPythonDjango[1], PythonPythonDjango[3] >> ]
      ]_vars

\* The reply "Zig, python, Python" was read: one unknown skill in "Other" and
\* one Backend skill, written as it came first.
C26_KnownAndUnknown ==
    /\ session_state.state = "awaiting_consent"
    /\ DOMAIN session_state.skill_categories = { "Backend", "Other" }
    /\ session_state.skill_categories["Other"] = << << "Z", "i", "g" >> >>
    /\ session_state.skill_categories["Backend"]
         = << << "p", "y", "t", "h", "o", "n" >> >>
    /\ Len(parse_tech_stack(session_state.candidate_data["tech_stack"])) = 2
    /\ Len(session_state.candidate_data["tech_stack"]) = 19
(***************************************************************************)
(* Properties of the screening phase: the category order, the consent      *)
(* gate, the profile.                                                      *)
(***************************************************************************)
\* The sequence holds every element of the set once and nothing else.
IsPermutationOf(seq, set) ==
    /\ { seq[i] : i \in 1..Len(seq) } = set
    /\ \A i, j \in 1..Len(seq) : seq[i] = seq[j] => i = j

\* C27: in every state whose phase is screening, category_order is not
\* empty and holds every key of skill_categories once and nothing else; and
\* a session that ends without an exit keyword ends at the question cap, not
\* in the branch for an empty category order.
C27_CategoryOrderIsPermutation ==
    /\ []( session_state.state = "screening"
             => /\ session_state.category_order # << >>
                /\ IsPermutationOf(session_state.category_order,
                                   DOMAIN session_state.skill_categories) )
    /\ [][ ( /\ TurnWithInput
             /\ session_state'.state = "ended"
             /\ ~check_exit_keyword(TurnInput) )
           => /\ LastMessage(session_state').kind = "completion_max_reached"
              /\ session_state'.total_questions_asked = MAX_TOTAL_QUESTIONS
      ]_vars

\* A screening over two categories, three questions asked.
C27_TwoCategoriesInOrder ==
    /\ session_state.state = "screening"
    /\ Len(session_state.category_order) = 2
    /\ Cardinality(DOMAIN session_state.skill_categories) = 2
    /\ session_state.category_order[1] # session_state.category_order[2]
    /\ session_state.total_questions_asked = 3
\* The turn read a reply to the consent prompt that holds neither a yes nor
\* a no keyword.
UnrecognizedTurn ==
    /\ ConsentReplyTurn
    /\ ~\E k \in yes_keywords \cup no_keywords : Contains(ConsentReply, k)

\* C28: in awaiting_consent a reply that holds neither a yes nor a no keyword
\* appends the re-prompt and changes nothing else in the session: the phase,
\* the consent status, the store and the scheduling state stay as they were;
\* and in the phases after awaiting_consent (screening, ended) no step
\* changes consent_status.
C28_UnrecognizedReplyReprompts ==
    [][ /\ UnrecognizedTurn
          => /\ session_state'.messages.tail
                  = << UserMsg(TurnInput), AssistantMsg("consent_reprompt") >>
             /\ session_state'
                  = [ session_state EXCEPT !.messages = session_state'.messages ]
             /\ store' = store
             /\ run_error' = "none"
        /\ session_state.state \in { "screening", "ended" }
          => session_state'.consent_status = session_state.consent_status
      ]_vars

\* The candidate replied "hm" to the consent prompt and was asked again.
C28_Reprompted ==
    /\ session_state.state = "awaiting_consent"
    /\ session_state.consent_status = "unknown"
    /\ session_state.messages.tail
         = << UserMsg(In_hm), AssistantMsg("consent_reprompt") >>
\* The profile of the session: what the field collector gathered and derived.
ProfileFields(ss) ==
    << ss.candidate_data, ss.skill_categories, ss.category_order,
       ss.seniority_label, ss.role_summary, ss.skill_summary >>

\* C29: the step that makes the phase screening and every step taken in the
\* screening phase or after it leave candidate_data, skill_categories,
\* category_order, seniority_label, role_summary and skill_summary as they
\* were.
C29_ProfileFrozenInScreening ==
    [][ ( \/ session_state'.state = "screening"
          \/ session_state.state \in { "screening", "ended" } )
        => ProfileFields(session_state') = ProfileFields(session_state)
      ]_vars

\* A screening with two categories in which four answers were stored, the
\* latest in this turn, and the profile is in place.
C29_AnsweredWithProfile ==
    /\ session_state.state = "screening"
    /\ TotalLen(session_state.answers) = 4
    /\ Head(session_state.messages.tail).role = "user"
    /\ LastMessage(session_state).kind = "question"
    /\ Len(session_state.category_order) = 2
    /\ session_state.role_summary # ""
    /\ session_state.seniority_label = "Mid-level"
    /\ session_state.candidate_data["tech_stack"] = In_tech_go_sql
\* The categories of the questions the latest turn asked.
QuestionCategories(ss) ==
    SelectSeq([ i \in 1..Len(ss.messages.tail) |->
                  IF ss.messages.tail[i].kind = "question"
                  THEN ss.messages.tail[i].about ELSE "" ],
              LAMBDA c : c # "")

\* The scheduling state of the session.
SchedulingState(ss) ==
    << ss.category_order, ss.current_category_index, ss.total_questions_asked,
       ss.asked_questions_by_category, ss.answers, ss.awaiting_followup,
       ss.last_category_answered, QuestionCategories(ss) >>

\* The session a refusal ("no") leaves, read in the state and the store of
\* this step, in the environment env.
AfterRefusal(env) == main(session_state, store, In_no, env).ss

\* The step is the consent turn in the environment env.
ConsentTurnIn(env) ==
    /\ session_state' = main(session_state, store, TurnInput, env).ss
    /\ store' = main(session_state, store, TurnInput, env).file
    /\ run_error' = main(session_state, store, TurnInput, env).exc

\* C30: the scheduling state a granted consent leaves (category order,
\* cursor, question counts, answers, follow-up flag, category of the first
\* question) is the one a refusal leaves in the same state, with the same
\* store and the same outcome of the generation call.
C30_ConsentDoesNotAffectScheduling ==
    [][ AffirmativeTurn
        => \A question \in GatewayResults("category_question"), writable \in BOOLEAN :
             ConsentTurnIn([ QuietEnv EXCEPT !.question = question,
                                             !.writable = writable ])
             => SchedulingState(session_state')
                  = SchedulingState(
                        AfterRefusal([ QuietEnv EXCEPT !.question = question,
                                                       !.writable = writable ]))
      ]_vars
AmbiguousTurn == AffirmativeTurn /\ NegativeTurn

\* C32: a reply in awaiting_consent that holds both a yes keyword and a no
\* keyword ("no way" holds "no", "n" and "y") is taken for consent: the
\* consent status becomes granted and save_candidate_profile is called with
\* the profile; unless the write raises, the record is the last of the store
\* and the screening starts.
C32_AmbiguousReplyGrantsConsent ==
    [][ AmbiguousTurn
        => /\ session_state'.consent_status = "granted"
           /\ run_error' = "OSError"
                => /\ store' = store
                   /\ session_state'.state = "awaiting_consent"
           /\ run_error' # "OSError"
                => /\ session_state'.state = "screening"
                   /\ store'.status = "valid"
                   /\ store'.records # << >>
                   /\ store'.records[Len(store'.records)]
                        = [ candidate_data   |-> session_state.candidate_data,
                            role_summary     |-> session_state.role_summary,
                            skill_summary    |-> session_state.skill_summary,
                            seniority_label  |-> session_state.seniority_label,
                            skill_categories |-> session_state.skill_categories ]
      ]_vars

\* The candidate replied "no way": consent is granted, the profile is in the
\* store and the first question was asked.
C32_NoWayStored ==
    /\ session_state.state = "screening"
    /\ Head(session_state.messages.tail).text = In_no_way
    /\ session_state.consent_status = "granted"
    /\ LastMessage(session_state).kind = "question"
    /\ store.status = "valid"
    /\ store.records[Len(store.records)].candidate_data
         = session_state.candidate_data
\* C33: a turn of the field collection whose input fails the validation of
\* the current field (email, phone, years of experience, tech stack) leaves
\* candidate_data as it was.
C33_RejectedInputStoresNothing ==
    [][ InvalidFieldTurn
        => session_state'.candidate_data = session_state.candidate_data
      ]_vars
\* The messages handle_fallback appends: the fallback agent's reply, or the
\* apology when the call failed.
FallbackKinds == { "fallback_response", "fallback_apology" }

\* C34: handle_fallback is never called: the phase is always one of the four
\* that main() handles before the fallback call, and no turn appends a
\* message of handle_fallback.
C34_FallbackNeverInvoked ==
    /\ session_state.state
         \in { "collecting_info", "awaiting_consent", "screening", "ended" }
    /\ TailKinds(session_state) \cap FallbackKinds = {}

\* A session that took a turn in every phase before the end: the fields were
\* collected, consent was refused, and a turn of the screening stored the
\* first answer, acknowledged it and asked the next question.
C34_TurnEndedInRerun ==
    /\ session_state.state = "screening"
    /\ Len(session_state.messages.tail) = 3
    /\ session_state.messages.tail[1].role = "user"
    /\ session_state.messages.tail[2].kind = "ack_first"
    /\ session_state.messages.tail[3].kind = "question"
    /\ session_state.consent_status = "denied"
\* C35: every backoff sleep of the gateway is followed by another backend
\* attempt; after the last failed attempt the failure is signalled without a
\* sleep, so a call that ends has slept fewer times than it made attempts.
C35_NoSleepAfterLastAttempt ==
    /\ [][ Len(gw'.slept) > Len(gw.slept)
             => /\ gw'.pc = "try"
                /\ gw'.result = "none" ]_vars
    /\ []( gw.pc = "done" => Len(gw.slept) < gw.calls )
=============================================================================
